---- MODULE Spec2Model ----
(***************************************************************************)
(* Tool-orchestration runtime of omni-secretary (02.backend/app).          *)
(*                                                                         *)
(*   SpecSup    MCPServerManager: start_server / stop_server, the stdout   *)
(*              reader task and the spawned processes (mcp_service.py)     *)
(*   SpecAll    stop_all_servers over a stdio and an HTTP server           *)
(*   SpecCli    MCPClientManager: connect_to_server / close / find_tool    *)
(*              (mcp_client.py, mcp_service.py find_tool)                  *)
(*   SpecCloseAll  close_all with overlapping connect_to_server / close    *)
(*   SpecCorr   the reader's message handling over pending_requests        *)
(*   SpecAgent  the agent runs: generate_openai_stream_with_mcp,           *)
(*              generate_openai_stream, query_agent/process_with_openai    *)
(*              (SpecAgentLive: the same with every await returning;       *)
(*              SpecAgentCli: the same with sessions closed meanwhile)     *)
(*                                                                         *)
(* asyncio is single-threaded and cooperative: every action below is the   *)
(* code that runs between two suspension points (await) of one coroutine.  *)
(***************************************************************************)
EXTENDS Integers, Sequences, FiniteSets, TLC

VARIABLES
    servers,    \* MCPServerManager.servers: name -> entry (a dict: partial function)
    procs,      \* every process spawned by start_server: pid -> [name, state]
    rd,         \* _handle_process_output task of each process: pid -> position
    calls,      \* in-flight / returned start_server and stop_server coroutines
    last,       \* what the step just taken returned from start_server / stop_server
    scope,      \* the server names the callers of one behaviour operate on
    platform,   \* how start_server spawns a stdio process on this host
    threads,    \* run_process threads with their _wait_and_fetch_tools tasks
    sa,         \* the stop_all_servers call: its position and its key snapshot
    clients,    \* MCPClientManager.clients: insertion-ordered dict name -> client
    sess,       \* every MCPClient created: sid -> [name, state, tools]
    ccalls,     \* in-flight MCPClientManager coroutines
    regAt,      \* name -> time its key was inserted into clients
    clock,      \* number of key insertions into clients so far
    resolved,   \* the most recent find_tool call and its result
    cout,       \* the most recent return of an MCPClientManager method
    ca,         \* the close_all call: its position in clients.items()
    pending,    \* a session's pending_requests dict: request id -> callback
    registered, \* the pending requests registered on the session
    fired,      \* callback owner -> the ids of the messages that invoked it
    rpc,        \* reader task -> "read" or "in_callback"
    nlines,     \* lines handled so far
    line,       \* the line the reader step just taken handled
    mode,       \* which agent run the request is
    apiKey,     \* the caller's api_key
    apc,        \* where the run is
    iteration,  \* the loop counter of generate_openai_stream_with_mcp
    modelCalls, \* model calls issued so far
    withTools,  \* the latest model call was made with tool declarations
    toolCalls,  \* tool_calls of the assistant turn being processed
    idx,        \* the call of toolCalls being processed
    execArgs,   \* the arguments of the execute_tool call in flight
    systemMsgs, \* the values messages[0] of the conversation has held, in order
    available_tools, \* the tool declarations collected when the run began
    messages,   \* the messages appended since the latest assistant turn
    events,     \* the types of the events yielded so far, in order
    out,        \* the event yielded last, or the response returned
    raised,     \* the exception that reached the outer except handler
    rest,       \* the part of the answer not yet streamed
    chunks,     \* chunks read from a model stream
    answer      \* the final answer of the run

supVars == <<servers, procs, rd, calls, last, scope, platform, threads, sa>>

cliVars == <<clients, sess, ccalls, regAt, clock, resolved, cout, ca>>

corrVars == <<pending, registered, fired, rpc, nlines, line>>

agentVars ==
    <<mode, apiKey, apc, iteration, modelCalls, withTools, toolCalls, idx,
      execArgs, systemMsgs, available_tools, messages, events, out, raised,
      rest, chunks, answer>>

vars == <<supVars, cliVars, corrVars, agentVars>>

\* what the actions of one component leave alone
supRest == <<scope, platform, sa, cliVars, corrVars, agentVars>>

cliRest == <<ca, supVars, corrVars, agentVars>>

corrRest == <<procs, calls, last, scope, platform, threads, sa, cliVars, agentVars>>

agentRest == <<supVars, cliVars, corrVars>>

(***************************************************************************)
(* Bounds                                                                  *)
(***************************************************************************)
MaxProcs == 2       \* processes spawned in one behaviour

MaxSessions == 3    \* MCPClient objects created in one behaviour

MaxLines == 3       \* stdout lines handled in one behaviour

MaxChunks == 2      \* chunks read from one model stream

(***************************************************************************)
(* Configuration (app/core/config.py)                                      *)
(***************************************************************************)
MCP_MAX_RETRIES == 3

(***************************************************************************)
(* Literals of api/v1/endpoints/agent.py                                   *)
(***************************************************************************)
max_iterations == 10

chunk_size == 20

\* len(result_str) > 100
SummaryLimit == 100

\* settings.MCP_SERVERS: name -> [transport, url, enabled]; "ghost" is a name
\* that is not configured, "nourl" a disabled sse server without url.
MCP_SERVERS ==
    [n \in {"gmail", "web", "nourl"} |->
        CASE n = "gmail" -> [transport |-> "stdio", url |-> FALSE, enabled |-> TRUE]
          [] n = "web"   -> [transport |-> "sse",   url |-> TRUE,  enabled |-> TRUE]
          [] n = "nourl" -> [transport |-> "sse",   url |-> FALSE, enabled |-> FALSE]]

ServerNames == {"gmail", "web", "nourl", "ghost"}

\* Entries of different names never read or write each other, so a behaviour
\* is explored per set of names its callers use.
Scopes == {{n} : n \in ServerNames}

\* the client manager's callers work on the two servers that both declare
\* "search", or on a name connect() refuses
CliScopes == {{"gmail", "web"}, {"nourl"}, {"ghost"}}

None == 0

\* the two callers whose start_server / stop_server calls interleave
CallIds == {"c1", "c2"}

Pids == 1..MaxProcs

\* catalogs a process may push on stdout as {"tools": [...]}
Catalogs == {{"search"}}

(***************************************************************************)
(* Helpers on the servers dict                                             *)
(***************************************************************************)
DictPut(d, k, v) == [x \in DOMAIN d \cup {k} |-> IF x = k THEN v ELSE d[x]]

DictDel(d, k) == [x \in DOMAIN d \ {k} |-> d[x]]

SetStatus(d, k, s) == [d EXCEPT ![k].status = s]

\* A coroutine slot.  process is the local variable of stop_server; attempt
\* counts the GET /status requests answered and delays the asyncio.sleep
\* calls completed; ok200 tells whether a request was answered 200; peers
\* are the calls on the same name that ran while this one was suspended.
IdleCall ==
    [op |-> "idle", name |-> "gmail", pc |-> "idle", process |-> None,
     attempt |-> 0, delays |-> 0, ok200 |-> FALSE, peers |-> {}]

\* What the caller of the call that returned in the step just taken got:
\* the operation, its argument, the return value and the return statement
\* it left through, with the counters of the call; alone: no other call on
\* that name ran while it was suspended.  NoReturn after any other step.
NoReturn ==
    [op |-> "none", name |-> "gmail", ret |-> FALSE, how |-> "none",
     attempts |-> 0, delays |-> 0, ok200 |-> FALSE, alone |-> TRUE]

Active(c) == calls[c].pc # "idle"

\* process.returncode is None: running (a signal may be on its way), not exited
Alive(p) == procs[p].state # "exited"

\* the calls in flight on name n, other than c
Peers(c, n) == {d \in CallIds \ {c} : Active(d) /\ calls[d].name = n}

\* calls after c suspends for the first time, on n, with record r: the calls
\* in flight on n are recorded as overlapping it
Suspend(c, n, r) ==
    [d \in CallIds |->
        IF d = c THEN IF r.pc = "idle" THEN r
                      ELSE [r EXCEPT !.name = n, !.peers = Peers(c, n)]
        ELSE IF d \in Peers(c, n)
             THEN [calls[d] EXCEPT !.peers = @ \cup {c}]
             ELSE calls[d]]

\* caller c runs op on n and returns v at once (no await is reached); the
\* calls suspended on n have been overlapped by it
ReturnsAtOnce(c, op, n, v, h) ==
    /\ last' = [NoReturn EXCEPT !.op = op, !.name = n, !.ret = v, !.how = h]
    /\ calls' = Suspend(c, n, IdleCall)

\* the suspended call c resumes with record r and returns v through h
Returns(c, r, v, h) ==
    /\ last' = [op |-> r.op, name |-> r.name, ret |-> v, how |-> h,
                attempts |-> r.attempt, delays |-> r.delays, ok200 |-> r.ok200,
                alone |-> r.peers = {}]
    /\ calls' = [calls EXCEPT ![c] = IdleCall]

(***************************************************************************)
(* MCPServerManager.start_server                                           *)
(***************************************************************************)
RunningStatuses == {"running", "connecting", "connected"}

\* the "already running" test of start_server
AlreadyRunning(d, n) ==
    /\ n \in DOMAIN d
    /\ d[n].process # None
    /\ d[n].status \in RunningStatuses

\* fetch_tools: no request is sent; it only marks the entry connected
fetch_tools(d, n) == IF n \in DOMAIN d THEN SetStatus(d, n, "connected") ELSE d

\* both exception handlers of start_server
StartFailed(d, n) ==
    IF n \in DOMAIN d
    THEN [d EXCEPT ![n].status = "error", ![n].process = None]
    ELSE d

HttpEntry == [process |-> None, status |-> "connecting", tools |-> {}]

StdioEntry(p) == [process |-> p, status |-> "connected", tools |-> {}]

\* sys.platform and the running loop decide how a stdio process is spawned:
\* "exec" by asyncio.create_subprocess_exec, "popen" (Windows without a
\* ProactorEventLoop) by subprocess.Popen in a thread
Platforms == {"exec", "popen"}

\* the entry written before the thread is started
FallbackEntry == [process |-> None, status |-> "starting", tools |-> {}]

\* threading.Thread(target=run_process) and
\* create_task(_wait_and_fetch_tools(server_name, 2)) of one start_server
\* call, which returns True right after creating them
NewThread(n) ==
    [name |-> n, pc |-> "popen", pid |-> 0, waiting |-> TRUE, returned |-> TRUE]

\* start_server up to its first await (on the "popen" platform: all of it)
StartServer(c, n) ==
    /\ ~Active(c)
    /\ n \in scope
    /\ IF n \notin DOMAIN MCP_SERVERS
       THEN /\ ReturnsAtOnce(c, "start", n, FALSE, "unknown")
            /\ UNCHANGED <<servers, threads>>
       ELSE IF AlreadyRunning(servers, n)
       THEN /\ ReturnsAtOnce(c, "start", n, TRUE, "running")
            /\ UNCHANGED <<servers, threads>>
       ELSE IF MCP_SERVERS[n].transport \in {"http", "sse"}
       THEN IF ~MCP_SERVERS[n].url
            THEN /\ ReturnsAtOnce(c, "start", n, FALSE, "nourl")
                 /\ UNCHANGED <<servers, threads>>
            ELSE /\ servers' = DictPut(servers, n, HttpEntry)
                 /\ calls' = Suspend(c, n, [IdleCall EXCEPT !.op = "start", !.pc = "probe"])
                 /\ UNCHANGED threads
                 /\ last' = NoReturn
       ELSE IF platform = "popen"
       THEN /\ Len(threads) < MaxProcs
            /\ servers' = DictPut(servers, n, FallbackEntry)
            /\ threads' = Append(threads, NewThread(n))
            /\ ReturnsAtOnce(c, "start", n, NewThread(n).returned, "fallback")
       ELSE /\ calls' = Suspend(c, n, [IdleCall EXCEPT !.op = "start", !.pc = "spawn"])
            /\ UNCHANGED <<servers, threads>>
            /\ last' = NoReturn
    /\ UNCHANGED <<procs, rd, supRest>>

\* create_subprocess_exec returned a process: the entry is written, the two
\* monitor tasks are created, fetch_tools runs, True is returned
SpawnOk(c) ==
    /\ calls[c].pc = "spawn"
    /\ Len(procs) < MaxProcs
    /\ LET n == calls[c].name
           p == Len(procs) + 1 IN
       /\ procs' = Append(procs, [name |-> n, state |-> "running"])
       /\ rd' = Append(rd, "ready")
       /\ servers' = fetch_tools(DictPut(servers, n, StdioEntry(p)), n)
    /\ Returns(c, calls[c], TRUE, "spawned")
    /\ UNCHANGED <<threads, supRest>>

\* create_subprocess_exec raised
SpawnFail(c) ==
    /\ calls[c].pc = "spawn"
    /\ servers' = StartFailed(servers, calls[c].name)
    /\ Returns(c, calls[c], FALSE, "spawnfail")
    /\ UNCHANGED <<procs, rd, threads, supRest>>

\* the answer to GET {url}/status: 200, another status code, or an exception
ProbeOutcomes == {"ok", "bad", "raise"}

\* one GET {url}/status completes.  A 200 marks the entry connected; if the
\* entry is gone the KeyError is caught by the handler of the attempt.
Probe(c, outcome) ==
    /\ calls[c].pc = "probe"
    /\ LET n == calls[c].name
           r == [calls[c] EXCEPT !.attempt = @ + 1,
                                 !.ok200 = @ \/ outcome = "ok"] IN
       IF outcome = "ok" /\ n \in DOMAIN servers
       THEN /\ servers' = fetch_tools(SetStatus(servers, n, "connected"), n)
            /\ Returns(c, r, TRUE, "connected")
       ELSE /\ calls' = [calls EXCEPT ![c] = [r EXCEPT !.pc = "sleep"]]
            /\ UNCHANGED servers
            /\ last' = NoReturn
    /\ UNCHANGED <<procs, rd, threads, supRest>>

\* a variant of RetriesExhausted that records the failure under the name
\* also when the entry is gone
RetriesExhausted_Records(d, n) ==
    DictPut(d, n, [HttpEntry EXCEPT !.status = "error"])

\* after the last attempt: the entry is marked error (a KeyError on a missing
\* entry is caught by the outer handler, which finds nothing to clean)
RetriesExhausted(d, n) == IF n \in DOMAIN d THEN SetStatus(d, n, "error") ELSE d

\* mutant: the retry loop runs once too often
MoreAttempts_OffByOne(done) == done <= MCP_MAX_RETRIES

\* for attempt in range(MCP_MAX_RETRIES): another attempt follows `done`
MoreAttempts(done) == done < MCP_MAX_RETRIES

\* asyncio.sleep(MCP_RETRY_INTERVAL) completes: next attempt, or the retries
\* are exhausted
RetryDelay(c) ==
    /\ calls[c].pc = "sleep"
    /\ LET r == [calls[c] EXCEPT !.delays = @ + 1] IN
       IF MoreAttempts(calls[c].attempt)
       THEN /\ calls' = [calls EXCEPT ![c] = [r EXCEPT !.pc = "probe"]]
            /\ UNCHANGED servers
            /\ last' = NoReturn
       ELSE /\ servers' = RetriesExhausted(servers, calls[c].name)
            /\ Returns(c, r, FALSE, "exhausted")
    /\ UNCHANGED <<procs, rd, threads, supRest>>

(***************************************************************************)
(* MCPServerManager.stop_server                                            *)
(***************************************************************************)
\* mutant: the entry is marked stopped but stays in the dict
FinalCleanup_NoDel(d, n) ==
    IF n \in DOMAIN d
    THEN [d EXCEPT ![n].status = "stopped", ![n].process = None]
    ELSE d

\* "final cleanup" of stop_server: the entry is removed from the dict
FinalCleanup(d, n) == IF n \in DOMAIN d THEN DictDel(d, n) ELSE d

\* the early exit of stop_server: no process, or already marked stopped
NothingToStop(e) == e.process = None \/ e.status = "stopped"

\* a variant of Signal that sends the forced kill whichever signal is asked
Signal_KillFirst(ps, p, s) == [ps EXCEPT ![p].state = "killing"]

\* process.terminate() / process.kill(): the signal is delivered to the
\* running process, which exits when it gets to it (ProcExit)
Signal(ps, p, s) == [ps EXCEPT ![p].state = s]

\* process.terminate() / process.kill() delivers the signal, or raises
\* (ProcessLookupError or another exception, which stop_server logs)
SignalOutcomes == {"sent", "raised"}

\* TerminateProcess on a Popen object, waited for without a timeout
Terminated(ps, p) == [ps EXCEPT ![p].state = "exited"]

\* stop_server up to its first await, on the registry and the processes
StopServerBody(c, n) ==
    /\ ~Active(c)
    /\ n \in scope
    /\ IF n \notin DOMAIN servers
       THEN /\ ReturnsAtOnce(c, "stop", n, TRUE, "absent")
            /\ UNCHANGED <<servers, procs>>
       ELSE IF NothingToStop(servers[n])
       THEN /\ servers' = DictDel(servers, n)
            /\ ReturnsAtOnce(c, "stop", n, TRUE, "nothing")
            /\ UNCHANGED procs
       ELSE LET p == servers[n].process IN
            IF platform = "popen"
            THEN \* a Popen object: terminate(), then process.wait() blocks
                 \* until the exit and wait_for raises TypeError on the
                 \* int it returned, which is logged
                 /\ procs' = Terminated(procs, p)
                 /\ servers' = FinalCleanup(servers, n)
                 /\ ReturnsAtOnce(c, "stop", n, TRUE, "blocked")
            ELSE IF Alive(p)
            THEN \E o \in SignalOutcomes :
                   IF o = "sent"
                   THEN /\ procs' = Signal(procs, p, "terminating")
                        /\ calls' = Suspend(c, n, [IdleCall EXCEPT !.op = "stop",
                                                     !.pc = "term_wait", !.process = p])
                        /\ UNCHANGED servers
                        /\ last' = NoReturn
                   ELSE /\ servers' = FinalCleanup(servers, n)
                        /\ ReturnsAtOnce(c, "stop", n, TRUE, "term_raised")
                        /\ UNCHANGED procs
            ELSE /\ servers' = FinalCleanup(servers, n)
                 /\ ReturnsAtOnce(c, "stop", n, TRUE, "exited")
                 /\ UNCHANGED procs
    /\ UNCHANGED <<rd, threads, scope, platform, cliVars, corrVars, agentVars>>

\* stop_server called by a request handler
StopServer(c, n) == StopServerBody(c, n) /\ UNCHANGED sa

\* process.wait() returned within the timeout (after terminate or after kill)
WaitReturns(c) ==
    /\ calls[c].pc \in {"term_wait", "kill_wait"}
    /\ ~Alive(calls[c].process)
    /\ servers' = FinalCleanup(servers, calls[c].name)
    /\ Returns(c, calls[c], TRUE, "waited")
    /\ UNCHANGED <<procs, rd, threads, supRest>>

\* the 5 s grace wait timed out: kill if the process is still running
TermTimeout(c) ==
    /\ calls[c].pc = "term_wait"
    /\ LET p == calls[c].process IN
       IF Alive(p)
       THEN \E o \in SignalOutcomes :
              IF o = "sent"
              THEN /\ procs' = Signal(procs, p, "killing")
                   /\ calls' = [calls EXCEPT ![c].pc = "kill_wait"]
                   /\ UNCHANGED servers
                   /\ last' = NoReturn
              ELSE /\ servers' = FinalCleanup(servers, calls[c].name)
                   /\ Returns(c, calls[c], TRUE, "kill_raised")
                   /\ UNCHANGED procs
       ELSE /\ servers' = FinalCleanup(servers, calls[c].name)
            /\ Returns(c, calls[c], TRUE, "gone")
            /\ UNCHANGED procs
    /\ UNCHANGED <<rd, threads, supRest>>

\* a variant of KillTimeout that keeps waiting until the process has exited
KillTimeout_WaitsForExit(c) ==
    /\ calls[c].pc = "kill_wait"
    /\ ~Alive(calls[c].process)
    /\ servers' = FinalCleanup(servers, calls[c].name)
    /\ Returns(c, calls[c], TRUE, "resisted")
    /\ UNCHANGED <<procs, rd, threads, supRest>>

\* the 1 s wait after kill timed out: logged, then the final cleanup
KillTimeout(c) ==
    /\ calls[c].pc = "kill_wait"
    /\ servers' = FinalCleanup(servers, calls[c].name)
    /\ Returns(c, calls[c], TRUE, "resisted")
    /\ UNCHANGED <<procs, rd, threads, supRest>>

(***************************************************************************)
(* The spawned process and its stdout reader (_handle_process_output)      *)
(***************************************************************************)
\* the process exits, by itself or because of a signal; its stdout closes
ProcExit(p) ==
    /\ p \in DOMAIN procs
    /\ Alive(p)
    /\ procs' = [procs EXCEPT ![p].state = "exited"]
    /\ UNCHANGED <<servers, rd, calls, threads, supRest>>
    /\ last' = NoReturn

\* first run of the reader task: it returns at once without an entry
ReaderStart(p) ==
    /\ p \in DOMAIN rd
    /\ rd[p] = "ready"
    /\ rd' = [rd EXCEPT ![p] = IF procs[p].name \in DOMAIN servers
                               THEN "reading" ELSE "done"]
    /\ UNCHANGED <<servers, procs, calls, threads, supRest>>
    /\ last' = NoReturn

\* a {"tools": [...]} line: stored in the entry of the reader's server name
CatalogMessage(d, n, t) ==
    IF n \in DOMAIN d
    THEN [d EXCEPT ![n].tools = t, ![n].status = "connected"]
    ELSE d

ReaderCatalog(p, t) ==
    /\ p \in DOMAIN rd
    /\ rd[p] = "reading"
    /\ Alive(p)
    /\ servers' = CatalogMessage(servers, procs[p].name, t)
    /\ UNCHANGED <<procs, rd, calls, threads, supRest>>
    /\ last' = NoReturn

\* a variant of EndOfStream that leaves the status as it was
EndOfStream_KeepsStatus(d, n) == d

\* readline returned b"": the loop ends and the entry is marked stopped
EndOfStream(d, n) == IF n \in DOMAIN d THEN SetStatus(d, n, "stopped") ELSE d

ReaderEOF(p) ==
    /\ p \in DOMAIN rd
    /\ rd[p] = "reading"
    /\ p \in DOMAIN rpc => rpc[p] = "read"
    /\ ~Alive(p)
    /\ servers' = EndOfStream(servers, procs[p].name)
    /\ rd' = [rd EXCEPT ![p] = "done"]
    /\ UNCHANGED <<procs, calls, threads, supRest>>
    /\ last' = NoReturn

(***************************************************************************)
(* The "popen" platform: run_process and _wait_and_fetch_tools             *)
(***************************************************************************)
\* run_process after Popen returned: the entry, if there is one, gets the
\* process and reads connected
ThreadSpawned(d, n, p) ==
    IF n \in DOMAIN d
    THEN [d EXCEPT ![n].process = p, ![n].status = "connected"]
    ELSE d

\* the except handler of run_process
ThreadFailed(d, n) == IF n \in DOMAIN d THEN SetStatus(d, n, "error") ELSE d

\* run_process: Popen returns a process or raises.  Without an entry the
\* thread ends at once and leaves the process running.
ThreadPopen(t, ok) ==
    /\ t \in DOMAIN threads
    /\ threads[t].pc = "popen"
    /\ LET n == threads[t].name
           p == Len(procs) + 1 IN
       IF ok
       THEN /\ Len(procs) < MaxProcs
            /\ procs' = Append(procs, [name |-> n, state |-> "running"])
            /\ rd' = Append(rd, "none")
            /\ servers' = ThreadSpawned(servers, n, p)
            /\ threads' = [threads EXCEPT
                             ![t].pid = p,
                             ![t].pc = IF n \in DOMAIN servers
                                       THEN "logging" ELSE "done"]
       ELSE /\ servers' = ThreadFailed(servers, n)
            /\ threads' = [threads EXCEPT ![t].pc = "failed"]
            /\ UNCHANGED <<procs, rd>>
    /\ UNCHANGED <<calls, supRest>>
    /\ last' = NoReturn

\* run_process after the process exited: the two output loops end,
\* process.wait() returns and the entry of that name is marked stopped
ThreadWaited(t) ==
    /\ t \in DOMAIN threads
    /\ threads[t].pc = "logging"
    /\ ~Alive(threads[t].pid)
    /\ servers' = EndOfStream(servers, threads[t].name)
    /\ threads' = [threads EXCEPT ![t].pc = "done"]
    /\ UNCHANGED <<procs, rd, calls, supRest>>
    /\ last' = NoReturn

\* _wait_and_fetch_tools: the sleep is over, fetch_tools runs
WaitAndFetch(t) ==
    /\ t \in DOMAIN threads
    /\ threads[t].waiting
    /\ servers' = fetch_tools(servers, threads[t].name)
    /\ threads' = [threads EXCEPT ![t].waiting = FALSE]
    /\ UNCHANGED <<procs, rd, calls, supRest>>
    /\ last' = NoReturn

(***************************************************************************)
(* The supervisor's steps                                                  *)
(***************************************************************************)
(***************************************************************************)
(* MCPServerManager.stop_all_servers (called by cleanup_mcp_servers)       *)
(***************************************************************************)
\* keys: list(self.servers.keys()) taken when the call begins; todo: the
\* keys the for loop has not reached; quiet: no start_server call is in
\* flight when it begins and none begins while it runs
NoStopAll == [pc |-> "idle", keys |-> {}, todo |-> {}, quiet |-> FALSE]

\* the caller of stop_all_servers
AllStopper == "c2"

\* a variant of Snapshot that lists only the servers with a process
Snapshot_WithProcess(d) == {n \in DOMAIN d : d[n].process # None}

\* list(self.servers.keys())
Snapshot(d) == DOMAIN d

StartInFlight == \E c \in CallIds : calls[c].op = "start"

\* the loop is about to call stop_server for its next key, or to return: no
\* await separates it from the previous stop_server's return
StopAllTurn == sa.pc = "loop" /\ ~Active(AllStopper)

\* start_server may begin: not during a stop_all_servers call that is to
\* run without one
StartAllowed == ~(sa.pc = "loop" /\ sa.quiet)

\* stop_all_servers is called and takes its snapshot
StopAllBegin(q) ==
    /\ sa.pc = "idle"
    /\ ~Active(AllStopper)
    /\ q => ~StartInFlight
    /\ sa' = [pc |-> "loop", keys |-> Snapshot(servers),
              todo |-> Snapshot(servers), quiet |-> q]
    /\ last' = NoReturn
    /\ UNCHANGED <<servers, procs, rd, calls, scope, platform, threads,
                   cliVars, corrVars, agentVars>>

\* one turn of 'for server_name in ...: await self.stop_server(server_name)',
\* the keys in any order, or the return after the last key
StopAllStep ==
    /\ StopAllTurn
    /\ IF sa.todo = {}
       THEN /\ sa' = [sa EXCEPT !.pc = "done"]
            /\ last' = [NoReturn EXCEPT !.op = "stop_all", !.ret = TRUE]
            /\ UNCHANGED <<servers, procs, rd, calls, scope, platform, threads,
                           cliVars, corrVars, agentVars>>
       ELSE \E n \in sa.todo :
            /\ StopServerBody(AllStopper, n)
            /\ sa' = [sa EXCEPT !.todo = @ \ {n}]

\* the steps of the event loop while stop_all_servers runs: a start_server
\* caller, the processes and their readers
NextAll ==
    \/ \E q \in BOOLEAN : StopAllBegin(q)
    \/ StopAllStep
    \/ /\ ~StopAllTurn
       /\ \/ \E n \in ServerNames : StartAllowed /\ StartServer("c1", n)
          \/ SpawnOk("c1")
          \/ SpawnFail("c1")
          \/ \E o \in ProbeOutcomes : Probe("c1", o)
          \/ RetryDelay("c1")
          \/ WaitReturns(AllStopper)
          \/ TermTimeout(AllStopper)
          \/ KillTimeout(AllStopper)
          \/ \E p \in Pids : ProcExit(p)
          \/ \E p \in Pids : ReaderStart(p)
          \/ \E p \in Pids, t \in Catalogs : ReaderCatalog(p, t)
          \/ \E p \in Pids : ReaderEOF(p)

NextSup ==
    \/ \E c \in CallIds, n \in ServerNames : StartServer(c, n)
    \/ \E c \in CallIds : SpawnOk(c)
    \/ \E c \in CallIds : SpawnFail(c)
    \/ \E c \in CallIds, o \in ProbeOutcomes : Probe(c, o)
    \/ \E c \in CallIds : RetryDelay(c)
    \/ \E c \in CallIds, n \in ServerNames : StopServer(c, n)
    \/ \E c \in CallIds : WaitReturns(c)
    \/ \E c \in CallIds : TermTimeout(c)
    \/ \E c \in CallIds : KillTimeout(c)
    \/ \E p \in Pids : ProcExit(p)
    \/ \E p \in Pids : ReaderStart(p)
    \/ \E p \in Pids, t \in Catalogs : ReaderCatalog(p, t)
    \/ \E p \in Pids : ReaderEOF(p)
    \/ \E t \in Pids, ok \in BOOLEAN : ThreadPopen(t, ok)
    \/ \E t \in Pids : ThreadWaited(t)
    \/ \E t \in Pids : WaitAndFetch(t)

(***************************************************************************)
(* MCPClientManager (mcp_client.py) and find_tool (mcp_service.py)         *)
(***************************************************************************)
\* what the server behind name n answers to list_tools: both gmail and web
\* declare a tool named "search", each with its own description
Descriptor(n, t) == [name |-> t, description |-> n]

ListTools(n) ==
    CASE n = "gmail" -> {Descriptor(n, "search"), Descriptor(n, "send")}
      [] n = "web"   -> {Descriptor(n, "search")}
      [] OTHER       -> {}

ToolNames == {"search", "send"}

\* clients is a Python dict: a key keeps the position of its first
\* insertion when its value is overwritten, and a new key goes last
OdKeys(cl) == {cl[i].name : i \in DOMAIN cl}

OdGet(cl, n) == (CHOOSE i \in DOMAIN cl : cl[i].name = n)

OdSet(cl, n, v) ==
    IF n \in OdKeys(cl)
    THEN [cl EXCEPT ![OdGet(cl, n)].sid = v]
    ELSE Append(cl, [name |-> n, sid |-> v])

OdDel(cl, n) == SelectSeq(cl, LAMBDA e : e.name # n)

\* the client registered under n
ClientOf(cl, n) == cl[OdGet(cl, n)].sid

\* a client whose connect() failed, or that was closed, is left to the
\* garbage collector: only that it is dead is kept
Dead(how) == [name |-> "None", state |-> how, tools |-> {}]

IdleCCall == [op |-> "idle", name |-> "gmail", pc |-> "idle", sid |-> 0]

\* cout and resolved hold what the step just taken returned to its caller
NoMap == [n \in {} |-> {}]

NoCOut ==
    [op |-> "none", name |-> "gmail", ret |-> "none", outer |-> "none",
     tools |-> NoMap]

NotFound == [server |-> "None", tool |-> [name |-> "None", description |-> "None"]]

NothingResolved == [asked |-> "None", found |-> NotFound]

CActive(c) == ccalls[c].pc # "idle"

\* MCPServerManager.execute_tool awaits MCPClientManager.execute_tool and
\* passes its pair on; an exception is turned into (False, text)
MCPServerManager_execute_tool(r) == IF r = "raise" THEN "(False, error)" ELSE r

\* the method op of caller c returns v; outer is what a caller that came
\* through MCPServerManager.execute_tool gets
CReturn(c, op, n, v) ==
    /\ cout' = [op |-> op, name |-> n, ret |-> v,
                outer |-> IF op = "execute"
                          THEN MCPServerManager_execute_tool(v) ELSE v,
                tools |-> NoMap]
    /\ ccalls' = [ccalls EXCEPT ![c] = IdleCCall]

\* MCPClient.connect returns False before any await
ConnectRefused(n) == n \notin DOMAIN MCP_SERVERS \/ ~MCP_SERVERS[n].enabled

\* what each method returns when connect_to_server returned False
WhenNotConnected(op) ==
    CASE op = "connect"   -> "False"
      [] op = "get_tools" -> "[]"
      [] op = "execute"   -> "(False, cannot connect)"

\* connect_to_server past the 'in self.clients' test: a new MCPClient is
\* created and connect() awaited
NewClient(c, op, n) ==
    IF ConnectRefused(n)
    THEN /\ CReturn(c, op, n, WhenNotConnected(op))
         /\ UNCHANGED sess
    ELSE /\ Len(sess) < MaxSessions
         /\ sess' = Append(sess, [name |-> n, state |-> "connecting", tools |-> {}])
         /\ ccalls' = [ccalls EXCEPT ![c] =
                          [op |-> op, name |-> n, pc |-> "connect",
                           sid |-> Len(sess) + 1]]
         /\ cout' = NoCOut

\* MCPClientManager.connect_to_server(n)
ConnectToServer(c, n) ==
    /\ ~CActive(c)
    /\ n \in scope
    /\ IF n \in OdKeys(clients)
       THEN /\ CReturn(c, "connect", n, "True")
            /\ UNCHANGED sess
       ELSE NewClient(c, "connect", n)
    /\ resolved' = NothingResolved
    /\ UNCHANGED <<clients, regAt, clock, cliRest>>

\* MCPClientManager.get_tools(n)
GetTools(c, n) ==
    /\ ~CActive(c)
    /\ n \in scope
    /\ IF n \in OdKeys(clients)
       THEN /\ CReturn(c, "get_tools", n, "details")
            /\ UNCHANGED sess
       ELSE NewClient(c, "get_tools", n)
    /\ resolved' = NothingResolved
    /\ UNCHANGED <<clients, regAt, clock, cliRest>>

\* MCPClientManager.execute_tool(n, ...): with a registered client the
\* call suspends in session.call_tool
ExecuteTool(c, n) ==
    /\ ~CActive(c)
    /\ n \in scope
    /\ IF n \in OdKeys(clients)
       THEN /\ ccalls' = [ccalls EXCEPT ![c] =
                            [op |-> "execute", name |-> n, pc |-> "call",
                             sid |-> ClientOf(clients, n)]]
            /\ cout' = NoCOut
            /\ UNCHANGED sess
       ELSE NewClient(c, "execute", n)
    /\ resolved' = NothingResolved
    /\ UNCHANGED <<clients, regAt, clock, cliRest>>

ConnectOutcomes == {"ok", "notools", "fail"}

\* client.connect() returns to connect_to_server.  On success the session is
\* up and, unless list_tools failed, client.tools holds the catalog; the
\* client is then stored under its name, whatever is stored there
ConnectDone(c, outcome) ==
    LET r == ccalls[c]
        n == r.name
    IN
    /\ r.pc = "connect"
    /\ IF outcome = "fail"
       THEN /\ sess' = [sess EXCEPT ![r.sid] = Dead("failed")]
            /\ CReturn(c, r.op, n, WhenNotConnected(r.op))
            /\ UNCHANGED <<clients, regAt, clock>>
       ELSE /\ sess' = [sess EXCEPT
                          ![r.sid].state = "open",
                          ![r.sid].tools = IF outcome = "ok" THEN ListTools(n) ELSE {}]
            /\ clients' = OdSet(clients, n, r.sid)
            /\ IF n \in OdKeys(clients)
               THEN UNCHANGED <<regAt, clock>>
               ELSE /\ clock' = clock + 1
                    /\ regAt' = DictPut(regAt, n, clock + 1)
            /\ CASE r.op = "connect"   -> CReturn(c, r.op, n, "True")
                 [] r.op = "get_tools" -> CReturn(c, r.op, n, "details")
                 [] r.op = "execute"   ->
                      /\ ccalls' = [ccalls EXCEPT ![c].pc = "call"]
                      /\ cout' = NoCOut
    /\ resolved' = NothingResolved
    /\ UNCHANGED cliRest

\* self.session is set once connect() has entered the ClientSession
HasSession(client) == client.state \in {"open", "closed"}

\* a variant of MCPClient.execute_tool without its try/except
MCPClient_execute_tool_Raises(client, ok) ==
    IF ~HasSession(client) THEN "(False, not connected)"
    ELSE IF ok THEN "(True, text)" ELSE "raise"

\* MCPClient.execute_tool: (False, text) without a session, else the pair
\* made of what session.call_tool returned or raised
MCPClient_execute_tool(client, ok) ==
    IF ~HasSession(client) THEN "(False, not connected)"
    ELSE IF ok THEN "(True, text)" ELSE "(False, error)"

\* session.call_tool returns or raises; MCPClient.execute_tool turns both
\* into a pair
CallDone(c, ok) ==
    LET r == ccalls[c] IN
    /\ r.pc = "call"
    /\ ok => sess[r.sid].state = "open"
    /\ CReturn(c, "execute", r.name, MCPClient_execute_tool(sess[r.sid], ok))
    /\ resolved' = NothingResolved
    /\ UNCHANGED <<clients, sess, regAt, clock, cliRest>>

\* MCPClientManager.close(n) up to 'await self.clients[n].close()'
Close(c, n) ==
    /\ ~CActive(c)
    /\ n \in scope
    /\ IF n \in OdKeys(clients)
       THEN /\ ccalls' = [ccalls EXCEPT ![c] =
                            [op |-> "close", name |-> n, pc |-> "closing",
                             sid |-> ClientOf(clients, n)]]
            /\ cout' = NoCOut
       ELSE CReturn(c, "close", n, "None")
    /\ resolved' = NothingResolved
    /\ UNCHANGED <<clients, sess, regAt, clock, cliRest>>

\* client.close() is over (exit_stack.aclose(), errors swallowed), then
\* 'del self.clients[n]'
CloseDone(c) ==
    LET r == ccalls[c]
        n == r.name
    IN
    /\ r.pc = "closing"
    /\ sess' = [sess EXCEPT ![r.sid] = Dead("closed")]
    /\ IF n \in OdKeys(clients)
       THEN /\ clients' = OdDel(clients, n)
            /\ regAt' = DictDel(regAt, n)
            /\ CReturn(c, "close", n, "None")
       ELSE /\ CReturn(c, "close", n, "KeyError")
            /\ UNCHANGED <<clients, regAt>>
    /\ resolved' = NothingResolved
    /\ UNCHANGED <<clock, cliRest>>

\* the tools of the client stored at position i that are named t
Named(cl, ss, i, t) == {d \in ss[cl[i].sid].tools : d.name = t}

Hit(cl, ss, i, t) ==
    [server |-> cl[i].name, tool |-> CHOOSE d \in Named(cl, ss, i, t) : TRUE]

\* a variant of find_tool that keeps scanning and returns the last match
find_tool_LastMatch(cl, ss, t) ==
    LET hits == {i \in DOMAIN cl : Named(cl, ss, i, t) # {}} IN
    IF hits = {} THEN NotFound
    ELSE Hit(cl, ss, CHOOSE i \in hits : \A j \in hits : j <= i, t)

\* MCPServerManager.find_tool: clients.items() in dict order, the first
\* client with a tool of that name wins
find_tool(cl, ss, t) ==
    LET hits == {i \in DOMAIN cl : Named(cl, ss, i, t) # {}} IN
    IF hits = {} THEN NotFound
    ELSE Hit(cl, ss, CHOOSE i \in hits : \A j \in hits : i <= j, t)

FindTool(t) ==
    /\ resolved' = [asked |-> t, found |-> find_tool(clients, sess, t)]
    /\ cout' = NoCOut
    /\ UNCHANGED <<clients, sess, ccalls, regAt, clock, cliRest>>

\* a variant of get_all_tools that leaves out the sessions without tools
get_all_tools_NonEmpty(cl, ss) ==
    [n \in {m \in OdKeys(cl) : ss[ClientOf(cl, m)].tools # {}} |->
        ss[ClientOf(cl, n)].tools]

\* MCPServerManager.get_all_tools: for every key of clients, in one go, the
\* get_tool_details() of the client stored under it (get_tools finds the
\* key in clients and returns without suspending)
get_all_tools(cl, ss) == [n \in OdKeys(cl) |-> ss[ClientOf(cl, n)].tools]

GetAllToolsCall ==
    /\ cout' = [op |-> "get_all_tools", name |-> "gmail", ret |-> "dict",
                outer |-> "dict", tools |-> get_all_tools(clients, sess)]
    /\ resolved' = NothingResolved
    /\ UNCHANGED <<clients, sess, ccalls, regAt, clock, cliRest>>

NextCli ==
    \/ \E c \in CallIds, n \in ServerNames : ConnectToServer(c, n)
    \/ \E c \in CallIds, n \in ServerNames : GetTools(c, n)
    \/ \E c \in CallIds, n \in ServerNames : ExecuteTool(c, n)
    \/ \E c \in CallIds, o \in ConnectOutcomes : ConnectDone(c, o)
    \/ \E c \in CallIds, ok \in BOOLEAN : CallDone(c, ok)
    \/ \E c \in CallIds, n \in ServerNames : Close(c, n)
    \/ \E c \in CallIds : CloseDone(c)
    \/ \E t \in ToolNames : FindTool(t)
    \/ GetAllToolsCall

(***************************************************************************)
(* MCPClientManager.close_all (mcp_client.py), called at shutdown          *)
(*                                                                         *)
(* The loop walks clients.items() while the dict can change under it: a    *)
(* dict iterator raises RuntimeError at its next step when the size of the *)
(* dict differs from the size it started with, and otherwise goes on with  *)
(* the keys inserted after the one it is at.                               *)
(***************************************************************************)
NoCloseAll ==
    [pc |-> "idle", name |-> "None", sid |-> 0, at |-> 0, used |-> 0,
     ret |-> "none"]

\* the keys of clients the iterator has not reached: those inserted after
\* the key it is at
Unvisited(cl, times, at) == {i \in DOMAIN cl : times[cl[i].name] > at}

\* next() of the items() iterator of close_all
ItemsNext(cl, times, it) ==
    IF Len(cl) # it.used THEN "RuntimeError"
    ELSE IF Unvisited(cl, times, it.at) = {} THEN "exhausted"
    ELSE "item"

\* the loop of close_all is at the client stored at position i and awaits
\* its close()
Visit(cl, times, i, used) ==
    [pc |-> "closing", name |-> cl[i].name, sid |-> cl[i].sid,
     at |-> times[cl[i].name], used |-> used, ret |-> "none"]

\* close_all up to the first 'await client.close()', or to its return when
\* there are no clients
CloseAllBegin ==
    /\ ca.pc = "idle"
    /\ ca' = IF clients = <<>> THEN [NoCloseAll EXCEPT !.pc = "done", !.ret = "None"]
             ELSE Visit(clients, regAt, 1, Len(clients))
    /\ cout' = NoCOut
    /\ resolved' = NothingResolved
    /\ UNCHANGED <<clients, sess, ccalls, regAt, clock, supVars, corrVars,
                   agentVars>>

\* client.close() is over: the loop takes the next item, or raises, or ends
\* with clients.clear()
CloseAllStep ==
    LET nx == ItemsNext(clients, regAt, ca)
        todo == Unvisited(clients, regAt, ca.at)
    IN
    /\ ca.pc = "closing"
    /\ sess' = [sess EXCEPT ![ca.sid].state = "closed"]
    /\ CASE nx = "RuntimeError" ->
              /\ ca' = [ca EXCEPT !.pc = "done", !.ret = "RuntimeError"]
              /\ UNCHANGED <<clients, regAt>>
         [] nx = "exhausted" ->
              /\ ca' = [ca EXCEPT !.pc = "done", !.ret = "None"]
              /\ clients' = <<>>
              /\ regAt' = <<>>
         [] nx = "item" ->
              /\ ca' = Visit(clients, regAt,
                             CHOOSE i \in todo : \A j \in todo : i <= j, ca.used)
              /\ UNCHANGED <<clients, regAt>>
    /\ cout' = NoCOut
    /\ resolved' = NothingResolved
    /\ UNCHANGED <<ccalls, clock, supVars, corrVars, agentVars>>

\* close_all with connect_to_server and close calls of other tasks
NextCloseAll ==
    \/ CloseAllBegin
    \/ CloseAllStep
    \/ \E c \in CallIds, n \in ServerNames : ConnectToServer(c, n)
    \/ \E c \in CallIds, o \in ConnectOutcomes : ConnectDone(c, o)
    \/ \E c \in CallIds, n \in ServerNames : Close(c, n)
    \/ \E c \in CallIds : CloseDone(c)

(***************************************************************************)
(* _handle_process_output: one line read from stdout (mcp_service.py)      *)
(*                                                                         *)
(* Two reader tasks run on the processes of one server name (the state     *)
(* two overlapping start_server calls leave behind) and hold the same      *)
(* pending_requests dict; each pending request is a callback, plain or     *)
(* coroutine function, stored under its request id.                        *)
(***************************************************************************)
RequestIds == {"r1", "r2"}

\* ids an inbound line may carry: the request ids and one never issued
MessageIds == RequestIds \cup {"r9"}

Readers == {1, 2}

Callback(i, a) == [owner |-> i, async |-> a]

\* the pending_requests tables a session may hold
Tables ==
    UNION {[S -> BOOLEAN] : S \in SUBSET RequestIds}

TableOf(f) == [i \in DOMAIN f |-> Callback(i, f[i])]

\* kinds of line: blank after strip(); not JSON; JSON with "id" and "result";
\* the same with an id that cannot be a dict key; JSON with "tools"; any
\* other JSON value
LineKinds == {"blank", "garbage", "result", "unhashable", "tools", "other"}

NoLine ==
    [reader |-> 0, kind |-> "none", id |-> "none", hit |-> FALSE,
     raised |-> FALSE, after |-> FALSE]

\* lines the loop body only logs or skips: blank after strip() ('continue'),
\* json.JSONDecodeError, and what 'except Exception' catches or no branch
\* takes
SkippedKinds == {"blank", "garbage", "unhashable", "other"}

\* the line just handled was skipped, or its callback raised
Disturbed(l) == l.kind \in SkippedKinds \/ l.raised

\* a variant of Pop that leaves the entry in the table
Pop_Keep(tbl, i) == tbl

\* pending_requests.pop(req_id): the table without the entry
Pop(tbl, i) == [x \in DOMAIN tbl \ {i} |-> tbl[x]]

\* 'if req_id in pending_requests'
Matches(kind, i) == kind = "result" /\ i \in DOMAIN pending

\* a variant of AfterLine in which a line that is not JSON ends the loop
AfterLine_StopsOnGarbage(kind) == IF kind = "garbage" THEN "done" ELSE "reading"

\* where the reader is after a line of that kind: every handler of the
\* loop body logs and goes on to the next readline()
AfterLine(kind) == "reading"

\* reader p handles the line it read: from readline() to the next readline()
\* or, for a coroutine callback, to the await of the callback; ex says that a
\* plain callback raises, which 'except Exception' logs
HandleLine(p, kind, i, ex) ==
    /\ rd[p] = "reading"
    /\ rpc[p] = "read"
    /\ nlines < MaxLines
    /\ rd' = [rd EXCEPT ![p] = AfterLine(kind)]
    /\ nlines' = nlines + 1
    /\ line' = [reader |-> p, kind |-> kind,
                id |-> IF kind = "result" THEN i ELSE "none",
                hit |-> Matches(kind, i),
                raised |-> Matches(kind, i) /\ ~pending[i].async /\ ex,
                after |-> line.reader = p /\ Disturbed(line)]
    /\ IF Matches(kind, i)
       THEN LET callback == pending[i] IN
            /\ pending' = Pop(pending, i)
            /\ fired' = [fired EXCEPT ![callback.owner] = Append(@, i)]
            /\ rpc' = [rpc EXCEPT ![p] =
                          IF callback.async THEN "in_callback" ELSE "read"]
       ELSE UNCHANGED <<pending, fired, rpc>>
    /\ servers' = IF kind = "tools"
                  THEN CatalogMessage(servers, procs[p].name, {"search"})
                  ELSE servers
    /\ UNCHANGED <<registered, corrRest>>

\* the awaited coroutine callback finishes, or raises (ex), which
\* 'except Exception' logs
CallbackDone(p, ex) ==
    /\ rpc[p] = "in_callback"
    /\ rpc' = [rpc EXCEPT ![p] = "read"]
    /\ line' = IF ex THEN [NoLine EXCEPT !.reader = p, !.raised = TRUE]
               ELSE NoLine
    /\ UNCHANGED <<servers, rd, pending, registered, fired, nlines, corrRest>>

\* the caller that stops the server while lines arrive
Stopper == "c1"

\* the lines arrive while the server may be stopped and its processes exit
NextCorr ==
    \/ \E p \in Readers, k \in LineKinds, i \in MessageIds, ex \in BOOLEAN :
          HandleLine(p, k, i, ex)
    \/ \E p \in Readers, ex \in BOOLEAN : CallbackDone(p, ex)
    \/ \E n \in ServerNames : StopServer(Stopper, n)
    \/ WaitReturns(Stopper)
    \/ TermTimeout(Stopper)
    \/ KillTimeout(Stopper)
    \/ \E p \in Readers : ProcExit(p)
    \/ \E p \in Readers : ReaderEOF(p)

(***************************************************************************)
(* The agent runs (api/v1/endpoints/agent.py, services/agent_service.py)   *)
(*                                                                         *)
(* One request per behaviour, in one of three modes:                       *)
(*   "mcp_stream"    generate_openai_stream_with_mcp                       *)
(*   "plain_stream"  generate_openai_stream                                *)
(*   "query"         query_agent -> process_user_input ->                  *)
(*                   process_with_openai                                   *)
(* A text is a sequence of characters; a fixed phrase of the code is one   *)
(* character of it.                                                        *)
(***************************************************************************)
Modes == {"mcp_stream", "plain_stream", "query"}

\* the API keys a caller may supply
Keys == {<<"s", "k">>, <<"K">>}

\* the replacement written over a key: "[API_KEY]"
API_KEY_MARK == <<"[", "A", "P", "I", "_", "K", "E", "Y", "]">>

\* Python 'sub in s' for a non-empty sub
Contains(s, sub) ==
    \E i \in 0..(Len(s) - Len(sub)) : SubSeq(s, i + 1, i + Len(sub)) = sub

\* Python s.replace(old, new) for a non-empty old: left to right, the
\* occurrences found do not overlap
RECURSIVE Replace(_, _, _)
Replace(s, old, new) ==
    IF Len(s) < Len(old) THEN s
    ELSE IF SubSeq(s, 1, Len(old)) = old
         THEN new \o Replace(SubSeq(s, Len(old) + 1, Len(s)), old, new)
         ELSE <<Head(s)>> \o Replace(Tail(s), old, new)

\* the except handler of the streaming generators
Redact(error_msg, api_key) ==
    IF api_key # <<>> /\ Contains(error_msg, api_key)
    THEN Replace(error_msg, api_key, API_KEY_MARK)
    ELSE error_msg

\* str(e) of what a model call may raise, given the key the client was
\* built with
ErrorTexts(key) == {<<"timeout">>, <<"bad key: ">> \o key, key \o key}

Repeat(ch, n) == [i \in 1..n |-> ch]

\* message.content of a model answer: None or "", a short text, a text of
\* more than chunk_size characters
Contents == {<<>>, <<"a", "b">>, Repeat("a", chunk_size + 1)}

FALLBACK == <<"no answer could be generated">>

\* a variant of OrFallback that gives the content back as it is
OrFallback_AsIs(content) == content

\* response.choices[0].message.content or "..."
OrFallback(content) == IF content = <<>> THEN FALLBACK ELSE content

\* function.arguments of a requested call: a JSON object with or without
\* "text", a string that is not JSON, a JSON value that is not an object
Arguments ==
    {[kind |-> "object", text |-> <<"h", "i">>],
     [kind |-> "object", text |-> <<>>],
     [kind |-> "malformed", text |-> <<>>],
     [kind |-> "nonobject", text |-> <<>>]}

\* a variant of ParseArguments that passes the payload on as it is
ParseArguments_AsIs(a) == a

\* no execute_tool call has been made
NoArgs == [kind |-> "none", text |-> <<>>]

\* json.loads(function_args), {} on JSONDecodeError
ParseArguments(a) ==
    IF a.kind = "malformed" THEN [kind |-> "object", text |-> <<>>] ELSE a

ToolCall(i, n, a) == [id |-> i, name |-> n, arguments |-> a]

\* tool names the model may ask for: exposed by gmail, exposed by nobody,
\* the built-in
RequestedNames == {"search", "foo", "echo"}

\* message.tool_calls of a model turn that requests tools
ToolCallLists ==
    {<<ToolCall("t1", n, a)>> : n \in RequestedNames, a \in Arguments}
    \cup {<<ToolCall("t1", "foo", [kind |-> "object", text |-> <<>>]),
            ToolCall("t2", "search", [kind |-> "object", text |-> <<>>])>>}

\* what a session answers to call_tool through execute_tool: (True, text)
\* with a short or a long text, or (False, text); a text may hold the
\* characters of a key a caller uses
ToolOutcomes ==
    {[success |-> TRUE, result |-> <<"r">>],
     [success |-> TRUE, result |-> Repeat("x", SummaryLimit + 1)],
     [success |-> TRUE, result |-> <<"s", "k">>],
     [success |-> FALSE, result |-> <<"tool failed">>],
     [success |-> FALSE, result |-> <<"denied for ", "s", "k">>]}

Content(text) == [type |-> "content", text |-> text]

StopEvent == [type |-> "stop", text |-> <<>>]

\* a variant of Finish that ends the stream with a content event
Finish_Silent == [type |-> "content", text |-> <<>>]

\* what the generators yield last on success
Finish == StopEvent

ErrorEvent(text) == [type |-> "error", text |-> text]

NoOutput == [type |-> "none", text |-> <<>>]

NotRaised == [hit |-> FALSE, text |-> <<>>]

Streaming == mode # "query"

\* the generator yields the events es, in this order (process_with_openai
\* yields nothing)
Yield(es) ==
    IF Streaming /\ es # <<>>
    THEN /\ events' = events \o [i \in DOMAIN es |-> es[i].type]
         /\ out' = es[Len(es)]
    ELSE UNCHANGED <<events, out>>

\* the tool descriptors get_all_tools collects from the registered clients
GetAllTools == UNION {sess[clients[i].sid].tools : i \in DOMAIN clients}

\* the first chunk_size characters of a text, and what follows them
FirstChunk(text) == SubSeq(text, 1, IF Len(text) < chunk_size THEN Len(text) ELSE chunk_size)

AfterChunk(text) == SubSeq(text, chunk_size + 1, Len(text))

\* the progress event shows at most SummaryLimit characters of a result
Summary(result_str) ==
    IF Len(result_str) > SummaryLimit
    THEN SubSeq(result_str, 1, SummaryLimit) \o <<"... (shortened)">>
    ELSE result_str

AssistantMessage(tc) == [role |-> "assistant", tool_calls |-> tc]

\* a variant of ToolMessage that stores the shortened result
ToolMessage_Shortened(tc, result) ==
    [role |-> "tool", tool_call_id |-> tc.id, name |-> tc.name,
     content |-> Summary(result)]

\* a variant of ToolMessage that files every result under the first call id
ToolMessage_FirstId(tc, result) ==
    [role |-> "tool", tool_call_id |-> "t1", name |-> tc.name,
     content |-> result]

ToolMessage(tc, result) ==
    [role |-> "tool", tool_call_id |-> tc.id, name |-> tc.name,
     content |-> result]

\* a variant of Unavailable that gives an empty result
Unavailable_Blank(function_name) == <<>>

\* the result of a call whose name find_tool does not resolve
Unavailable(function_name) == <<"unavailable tool: ", function_name>>

\* a variant of Fail that reports the error and lets the run go on
Fail_GoesOn(es, e) ==
    /\ raised' = [hit |-> TRUE, text |-> e]
    /\ apc' = apc
    /\ IF Streaming
       THEN Yield(es \o <<ErrorEvent(Redact(e, apiKey))>>)
       ELSE /\ out' = [type |-> "response",
                       text |-> <<"error while processing: ">> \o e]
            /\ UNCHANGED events

\* an exception reached the outer except handler after the events es were
\* yielded: the streaming generators yield the error event with the key
\* replaced, process_with_openai returns the text as it is
Fail(es, e) ==
    /\ raised' = [hit |-> TRUE, text |-> e]
    /\ apc' = "done"
    /\ IF Streaming
       THEN Yield(es \o <<ErrorEvent(Redact(e, apiKey))>>)
       ELSE /\ out' = [type |-> "response",
                       text |-> <<"error while processing: ">> \o e]
            /\ UNCHANGED events

\* a variant of the loop test that lets one more iteration in
LoopContinues_OneMore(i) == i <= max_iterations

\* 'while iteration < max_iterations'
LoopContinues(i) == i < max_iterations

\* a variant of AfterCall that takes up the same call again
AfterCall_Repeats ==
    [apc |-> "call", idx |-> idx, iteration |-> iteration,
     modelCalls |-> modelCalls, withTools |-> withTools, notice |-> <<>>]

\* a variant of AfterCall whose call at the iteration cap declares the tools
AfterCall_FinalWithTools ==
    IF idx < Len(toolCalls)
    THEN [apc |-> "call", idx |-> idx + 1, iteration |-> iteration,
          modelCalls |-> modelCalls, withTools |-> withTools, notice |-> <<>>]
    ELSE IF ~Streaming
    THEN [apc |-> "final", idx |-> idx, iteration |-> iteration,
          modelCalls |-> modelCalls + 1, withTools |-> FALSE, notice |-> <<>>]
    ELSE IF LoopContinues(iteration + 1)
    THEN [apc |-> "model", idx |-> idx, iteration |-> iteration + 1,
          modelCalls |-> modelCalls + 1, withTools |-> TRUE, notice |-> <<>>]
    ELSE [apc |-> "final", idx |-> idx, iteration |-> iteration + 1,
          modelCalls |-> modelCalls + 1, withTools |-> TRUE,
          notice |-> <<Content(<<"max tool calls reached">>)>>]

\* a variant of AfterCall in which process_with_openai asks the model again
\* with the tools declared, as the streaming loop does
AfterCall_QueryLoops ==
    IF idx < Len(toolCalls)
    THEN [apc |-> "call", idx |-> idx + 1, iteration |-> iteration,
          modelCalls |-> modelCalls, withTools |-> withTools, notice |-> <<>>]
    ELSE IF LoopContinues(iteration + 1)
    THEN [apc |-> "model", idx |-> idx, iteration |-> iteration + 1,
          modelCalls |-> modelCalls + 1, withTools |-> TRUE, notice |-> <<>>]
    ELSE [apc |-> "final", idx |-> idx, iteration |-> iteration + 1,
          modelCalls |-> modelCalls + 1, withTools |-> FALSE,
          notice |-> <<Content(<<"max tool calls reached">>)>>]

\* where the run goes once the call at idx is done: the next call of the
\* turn; or, the turn being over, the next model call: with tools while the
\* loop goes on, else the final one without tools
AfterCall ==
    IF idx < Len(toolCalls)
    THEN [apc |-> "call", idx |-> idx + 1, iteration |-> iteration,
          modelCalls |-> modelCalls, withTools |-> withTools, notice |-> <<>>]
    ELSE IF ~Streaming
    THEN [apc |-> "final", idx |-> idx, iteration |-> iteration,
          modelCalls |-> modelCalls + 1, withTools |-> FALSE, notice |-> <<>>]
    ELSE IF LoopContinues(iteration + 1)
    THEN [apc |-> "model", idx |-> idx, iteration |-> iteration + 1,
          modelCalls |-> modelCalls + 1, withTools |-> TRUE, notice |-> <<>>]
    ELSE [apc |-> "final", idx |-> idx, iteration |-> iteration + 1,
          modelCalls |-> modelCalls + 1, withTools |-> FALSE,
          notice |-> <<Content(<<"max tool calls reached">>)>>]

\* the call at idx has its result: the tool message is appended, the
\* events es and the result summary are yielded, and the run moves on
ToolDone(es, result) ==
    LET nx == AfterCall IN
    /\ messages' = Append(messages, ToolMessage(toolCalls[idx], result))
    /\ Yield(es \o <<Content(<<"result: ">> \o Summary(result))>> \o nx.notice)
    /\ apc' = nx.apc
    /\ idx' = nx.idx
    /\ iteration' = nx.iteration
    /\ modelCalls' = nx.modelCalls
    /\ withTools' = nx.withTools

\* a variant of SystemMessages in which the first system message stays
SystemMessages_Kept(m, tools) ==
    IF m = "query" THEN <<"assistant">>
    ELSE IF m = "mcp_stream" THEN <<"assistant using tools as needed">>
    ELSE <<"assistant, short">>

\* the system message the conversation is seeded with and, in
\* process_with_openai when there are tools, the one written over it by
\* 'messages[0] = ...' before the first model call
SystemMessages(m, tools) ==
    IF m = "query"
    THEN IF tools THEN <<"assistant", "assistant using tools if needed">>
         ELSE <<"assistant">>
    ELSE IF m = "mcp_stream" THEN <<"assistant using tools as needed">>
    ELSE <<"assistant, short">>

\* the request starts: the catalog is collected and the first model call is
\* issued: with tool declarations if there are tools (not in
\* generate_openai_stream), as a stream in the streaming runs without tools
Begin ==
    /\ apc = "begin"
    /\ LET tools == IF mode = "plain_stream" THEN {} ELSE GetAllTools IN
       /\ withTools' = (tools # {})
       /\ apc' = IF Streaming /\ tools = {} THEN "create" ELSE "model"
    /\ modelCalls' = 1
    /\ systemMsgs' = SystemMessages(mode, GetAllTools # {})
    /\ available_tools' = IF mode = "plain_stream" THEN {} ELSE GetAllTools
    /\ UNCHANGED <<mode, apiKey, execArgs, iteration, toolCalls, idx, messages,
                   events, out, raised, rest, chunks, answer, agentRest>>

\* a model call raises (also while the stream is read)
ModelRaises(e) ==
    /\ apc \in {"model", "final", "create", "stream"}
    /\ Fail(<<>>, e)
    /\ UNCHANGED <<mode, apiKey, systemMsgs, available_tools, execArgs, iteration, modelCalls, withTools, toolCalls,
                   idx, messages, rest, chunks, answer, agentRest>>

\* the model answers a call made with tool declarations by requesting tools
ModelRequestsTools(tc) ==
    /\ apc = "model"
    /\ withTools
    /\ messages' = <<AssistantMessage(tc)>>
    /\ toolCalls' = tc
    /\ idx' = 1
    /\ apc' = "call"
    /\ Yield(<<Content(IF iteration = 0 THEN <<"using tools">>
                       ELSE <<"using tools again">>)>>)
    /\ UNCHANGED <<mode, apiKey, systemMsgs, available_tools, execArgs, iteration, modelCalls, withTools, raised,
                   rest, chunks, answer, agentRest>>

\* the model answers without tool calls: the streaming loop yields the
\* answer chunk by chunk, sleeping after each, then the stop event;
\* process_with_openai returns the content or the fallback
ModelAnswers(c) ==
    /\ apc = "model"
    /\ IF Streaming
       THEN LET pre == IF iteration > 0
                       THEN <<Content(<<"final answer:">>)>> ELSE <<>>
            IN
            /\ answer' = c
            /\ IF c = <<>>
               THEN /\ Yield(pre \o <<Finish>>)
                    /\ apc' = "done"
                    /\ rest' = rest
               ELSE /\ Yield(pre \o <<Content(FirstChunk(c))>>)
                    /\ apc' = "sleep"
                    /\ rest' = AfterChunk(c)
       ELSE /\ answer' = OrFallback(c)
            /\ out' = [type |-> "response", text |-> OrFallback(c)]
            /\ apc' = "done"
            /\ UNCHANGED <<events, rest>>
    /\ UNCHANGED <<mode, apiKey, systemMsgs, available_tools, execArgs, iteration, modelCalls, withTools, toolCalls,
                   idx, messages, raised, chunks, agentRest>>

\* asyncio.sleep after a chunk returns: the next chunk, or the stop event
ChunkSleepReturns ==
    /\ apc = "sleep"
    /\ IF rest = <<>>
       THEN /\ Yield(<<Finish>>)
            /\ apc' = "done"
            /\ rest' = rest
       ELSE /\ Yield(<<Content(FirstChunk(rest))>>)
            /\ apc' = "sleep"
            /\ rest' = AfterChunk(rest)
    /\ UNCHANGED <<mode, apiKey, systemMsgs, available_tools, execArgs, iteration, modelCalls, withTools, toolCalls,
                   idx, messages, raised, chunks, answer, agentRest>>

\* the call at idx is taken up: "echo" is answered in the loop from the
\* parsed arguments (.get on a value that is not an object raises), any
\* other name is looked up with find_tool and, when found, executed
Dispatch ==
    LET tc == toolCalls[idx]
        args_dict == ParseArguments(tc.arguments)
        use == Content(<<"tool use: ", tc.name>>)
        found == find_tool(clients, sess, tc.name)
    IN
    /\ apc = "call"
    /\ IF tc.name = "echo"
       THEN IF args_dict.kind = "nonobject"
            THEN /\ Fail(<<use>>, <<"AttributeError">>)
                 /\ UNCHANGED <<iteration, modelCalls, withTools, idx, messages>>
            ELSE /\ ToolDone(<<use>>, args_dict.text)
                 /\ UNCHANGED raised
       ELSE IF found = NotFound
            THEN /\ ToolDone(<<use, Content(<<"warning: ">> \o Unavailable(tc.name))>>,
                             Unavailable(tc.name))
                 /\ UNCHANGED raised
            ELSE /\ Yield(<<use>>)
                 /\ apc' = "exec"
                 /\ UNCHANGED <<iteration, modelCalls, withTools, idx,
                                messages, raised>>
    /\ execArgs' = IF tc.name # "echo" /\ found # NotFound THEN args_dict
                   ELSE execArgs
    /\ UNCHANGED <<mode, apiKey, systemMsgs, available_tools, toolCalls, rest, chunks, answer, agentRest>>

\* execute_tool returns its pair
ToolReturns(o) ==
    /\ apc = "exec"
    /\ ToolDone(IF o.success THEN <<>>
                ELSE <<Content(<<"tool failed: ">> \o o.result)>>,
                o.result)
    /\ execArgs' = NoArgs
    /\ UNCHANGED <<mode, apiKey, systemMsgs, available_tools, toolCalls, raised, rest, chunks, answer,
                   agentRest>>

\* the model call made without tool declarations after the tool turns
\* returns: its content, or the fallback, is the answer
FinalReturns(c) ==
    /\ apc = "final"
    /\ answer' = OrFallback(c)
    /\ IF Streaming
       THEN Yield(<<Content(OrFallback(c)), Finish>>)
       ELSE /\ out' = [type |-> "response", text |-> OrFallback(c)]
            /\ UNCHANGED events
    /\ apc' = "done"
    /\ UNCHANGED <<mode, apiKey, systemMsgs, available_tools, execArgs, iteration, modelCalls, withTools, toolCalls,
                   idx, messages, raised, rest, chunks, agentRest>>

\* create(stream=True) returns the stream
CreateReturns ==
    /\ apc = "create"
    /\ apc' = "stream"
    /\ UNCHANGED <<mode, apiKey, systemMsgs, available_tools, execArgs, iteration, modelCalls, withTools, toolCalls,
                   idx, messages, events, out, raised, rest, chunks, answer,
                   agentRest>>

\* the stream delivers a chunk; one without content yields nothing
StreamChunk(c) ==
    /\ apc = "stream"
    /\ chunks < MaxChunks
    /\ chunks' = chunks + 1
    /\ Yield(IF c = <<>> THEN <<>> ELSE <<Content(c)>>)
    /\ UNCHANGED <<mode, apiKey, systemMsgs, available_tools, execArgs, apc, iteration, modelCalls, withTools,
                   toolCalls, idx, messages, raised, rest, answer, agentRest>>

\* the stream is exhausted
StreamEnds ==
    /\ apc = "stream"
    /\ Yield(<<Finish>>)
    /\ apc' = "done"
    /\ UNCHANGED <<mode, apiKey, systemMsgs, available_tools, execArgs, iteration, modelCalls, withTools, toolCalls,
                   idx, messages, raised, rest, chunks, answer, agentRest>>

\* MCPClientManager.close(n), called by another request while the run is
\* suspended, has closed the client and deleted its key
SessionCloses(n) ==
    /\ apc \notin {"begin", "done"}
    /\ n \in OdKeys(clients)
    /\ sess' = [sess EXCEPT ![ClientOf(clients, n)] = Dead("closed")]
    /\ clients' = OdDel(clients, n)
    /\ regAt' = DictDel(regAt, n)
    /\ UNCHANGED <<ccalls, clock, resolved, cout, ca, supVars, corrVars,
                   agentVars>>

NextAgent ==
    \/ Begin
    \/ \E e \in ErrorTexts(apiKey) : ModelRaises(e)
    \/ \E tc \in ToolCallLists : ModelRequestsTools(tc)
    \/ \E c \in Contents : ModelAnswers(c)
    \/ ChunkSleepReturns
    \/ Dispatch
    \/ \E o \in ToolOutcomes : ToolReturns(o)
    \/ \E c \in Contents : FinalReturns(c)
    \/ CreateReturns
    \/ \E c \in Contents : StreamChunk(c)
    \/ StreamEnds

\* the runs with sessions being closed under them
NextAgentCli ==
    \/ Begin
    \/ \E e \in ErrorTexts(apiKey) : ModelRaises(e)
    \/ \E tc \in ToolCallLists : ModelRequestsTools(tc)
    \/ \E c \in Contents : ModelAnswers(c)
    \/ ChunkSleepReturns
    \/ Dispatch
    \/ \E o \in ToolOutcomes : ToolReturns(o)
    \/ \E c \in Contents : FinalReturns(c)
    \/ CreateReturns
    \/ \E c \in Contents : StreamChunk(c)
    \/ StreamEnds
    \/ \E n \in ServerNames : SessionCloses(n)

(***************************************************************************)
(* Specifications: each component is explored alone, the others at rest    *)
(***************************************************************************)
InitSup ==
    /\ servers = <<>>
    /\ procs = <<>>
    /\ rd = <<>>
    /\ calls = [c \in CallIds |-> IdleCall]
    /\ last = NoReturn
    /\ scope \in Scopes
    /\ platform \in Platforms
    /\ threads = <<>>
    /\ sa = NoStopAll
    /\ clients = <<>>
    /\ sess = <<>>
    /\ ccalls = [c \in CallIds |-> IdleCCall]
    /\ regAt = <<>>
    /\ clock = 0
    /\ resolved = NothingResolved
    /\ cout = NoCOut
    /\ ca = NoCloseAll
    /\ pending = <<>>
    /\ registered = <<>>
    /\ fired = [i \in RequestIds |-> <<>>]
    /\ rpc = [p \in Readers |-> "read"]
    /\ nlines = 0
    /\ line = NoLine
    /\ mode = "query"
    /\ apiKey = <<>>
    /\ apc = "done"
    /\ iteration = 0
    /\ modelCalls = 0
    /\ withTools = FALSE
    /\ toolCalls = <<>>
    /\ idx = 0
    /\ execArgs = NoArgs
    /\ systemMsgs = <<>>
    /\ available_tools = {}
    /\ messages = <<>>
    /\ events = <<>>
    /\ out = NoOutput
    /\ raised = NotRaised
    /\ rest = <<>>
    /\ chunks = 0
    /\ answer = <<>>

SpecSup == InitSup /\ [][NextSup]_vars

\* a stdio server and an HTTP server have been started and are connected
InitAll ==
    /\ servers = DictPut(DictPut(<<>>, "gmail", StdioEntry(1)), "web",
                         [HttpEntry EXCEPT !.status = "connected"])
    /\ procs = <<[name |-> "gmail", state |-> "running"]>>
    /\ rd = <<"reading">>
    /\ calls = [c \in CallIds |-> IdleCall]
    /\ last = NoReturn
    /\ scope = {"gmail", "web"}
    /\ platform = "exec"
    /\ threads = <<>>
    /\ sa = NoStopAll
    /\ clients = <<>>
    /\ sess = <<>>
    /\ ccalls = [c \in CallIds |-> IdleCCall]
    /\ regAt = <<>>
    /\ clock = 0
    /\ resolved = NothingResolved
    /\ cout = NoCOut
    /\ ca = NoCloseAll
    /\ pending = <<>>
    /\ registered = <<>>
    /\ fired = [i \in RequestIds |-> <<>>]
    /\ rpc = [p \in Readers |-> "read"]
    /\ nlines = 0
    /\ line = NoLine
    /\ mode = "query"
    /\ apiKey = <<>>
    /\ apc = "done"
    /\ iteration = 0
    /\ modelCalls = 0
    /\ withTools = FALSE
    /\ toolCalls = <<>>
    /\ idx = 0
    /\ execArgs = NoArgs
    /\ systemMsgs = <<>>
    /\ available_tools = {}
    /\ messages = <<>>
    /\ events = <<>>
    /\ out = NoOutput
    /\ raised = NotRaised
    /\ rest = <<>>
    /\ chunks = 0
    /\ answer = <<>>

SpecAll == InitAll /\ [][NextAll]_vars

\* asyncio.wait_for(process.wait(), timeout) returns or times out, and the
\* loop resumes the stop_server call that awaits it
StopResumes(c) == WaitReturns(c) \/ TermTimeout(c) \/ KillTimeout(c)

SpecSupLive == SpecSup /\ \A c \in CallIds : WF_vars(StopResumes(c))

InitCli ==
    /\ servers = <<>>
    /\ procs = <<>>
    /\ rd = <<>>
    /\ calls = [c \in CallIds |-> IdleCall]
    /\ last = NoReturn
    /\ scope \in CliScopes
    /\ platform = "exec"
    /\ threads = <<>>
    /\ sa = NoStopAll
    /\ clients = <<>>
    /\ sess = <<>>
    /\ ccalls = [c \in CallIds |-> IdleCCall]
    /\ regAt = <<>>
    /\ clock = 0
    /\ resolved = NothingResolved
    /\ cout = NoCOut
    /\ ca = NoCloseAll
    /\ pending = <<>>
    /\ registered = <<>>
    /\ fired = [i \in RequestIds |-> <<>>]
    /\ rpc = [p \in Readers |-> "read"]
    /\ nlines = 0
    /\ line = NoLine
    /\ mode = "query"
    /\ apiKey = <<>>
    /\ apc = "done"
    /\ iteration = 0
    /\ modelCalls = 0
    /\ withTools = FALSE
    /\ toolCalls = <<>>
    /\ idx = 0
    /\ execArgs = NoArgs
    /\ systemMsgs = <<>>
    /\ available_tools = {}
    /\ messages = <<>>
    /\ events = <<>>
    /\ out = NoOutput
    /\ raised = NotRaised
    /\ rest = <<>>
    /\ chunks = 0
    /\ answer = <<>>

SpecCli == InitCli /\ [][NextCli]_vars

\* the client manager while close_all runs
SpecCloseAll == InitCli /\ [][NextCloseAll]_vars

\* two reader tasks on the processes of gmail, past their first line, and a
\* table of pending requests
InitCorr ==
    /\ servers = DictPut(<<>>, "gmail", StdioEntry(2))
    /\ procs = [p \in Readers |-> [name |-> "gmail", state |-> "running"]]
    /\ rd = [p \in Readers |-> "reading"]
    /\ calls = [c \in CallIds |-> IdleCall]
    /\ last = NoReturn
    /\ scope = {"gmail"}
    /\ platform = "exec"
    /\ threads = <<>>
    /\ sa = NoStopAll
    /\ clients = <<>>
    /\ sess = <<>>
    /\ ccalls = [c \in CallIds |-> IdleCCall]
    /\ regAt = <<>>
    /\ clock = 0
    /\ resolved = NothingResolved
    /\ cout = NoCOut
    /\ ca = NoCloseAll
    /\ registered \in {TableOf(f) : f \in Tables}
    /\ pending = registered
    /\ fired = [i \in RequestIds |-> <<>>]
    /\ rpc = [p \in Readers |-> "read"]
    /\ nlines = 0
    /\ line = NoLine
    /\ mode = "query"
    /\ apiKey = <<>>
    /\ apc = "done"
    /\ iteration = 0
    /\ modelCalls = 0
    /\ withTools = FALSE
    /\ toolCalls = <<>>
    /\ idx = 0
    /\ execArgs = NoArgs
    /\ systemMsgs = <<>>
    /\ available_tools = {}
    /\ messages = <<>>
    /\ events = <<>>
    /\ out = NoOutput
    /\ raised = NotRaised
    /\ rest = <<>>
    /\ chunks = 0
    /\ answer = <<>>

SpecCorr == InitCorr /\ [][NextCorr]_vars

\* one request, with or without a connected gmail session
InitAgent ==
    /\ servers = <<>>
    /\ procs = <<>>
    /\ rd = <<>>
    /\ calls = [c \in CallIds |-> IdleCall]
    /\ last = NoReturn
    /\ scope = {}
    /\ platform = "exec"
    /\ threads = <<>>
    /\ sa = NoStopAll
    /\ \E connected \in BOOLEAN,
          more \in {{}, {Descriptor("gmail", "echo")}} :
         \* the session of the run may declare a tool named as the built-in
         /\ clients = IF connected THEN <<[name |-> "gmail", sid |-> 1]>> ELSE <<>>
         /\ sess = IF connected
                   THEN <<[name |-> "gmail", state |-> "open",
                           tools |-> ListTools("gmail") \cup more]>>
                   ELSE <<>>
         /\ regAt = IF connected THEN DictPut(<<>>, "gmail", 1) ELSE <<>>
         /\ clock = IF connected THEN 1 ELSE 0
    /\ ccalls = [c \in CallIds |-> IdleCCall]
    /\ resolved = NothingResolved
    /\ cout = NoCOut
    /\ ca = NoCloseAll
    /\ pending = <<>>
    /\ registered = <<>>
    /\ fired = [i \in RequestIds |-> <<>>]
    /\ rpc = [p \in Readers |-> "read"]
    /\ nlines = 0
    /\ line = NoLine
    /\ mode \in Modes
    /\ apiKey \in Keys
    /\ apc = "begin"
    /\ iteration = 0
    /\ modelCalls = 0
    /\ withTools = FALSE
    /\ toolCalls = <<>>
    /\ idx = 0
    /\ execArgs = NoArgs
    /\ systemMsgs = <<>>
    /\ available_tools = {}
    /\ messages = <<>>
    /\ events = <<>>
    /\ out = NoOutput
    /\ raised = NotRaised
    /\ rest = <<>>
    /\ chunks = 0
    /\ answer = <<>>

SpecAgent == InitAgent /\ [][NextAgent]_vars

\* the same runs while other requests close sessions
SpecAgentCli == InitAgent /\ [][NextAgentCli]_vars

\* every await of a run returns: model calls, tool executions and sleeps
SpecAgentLive == SpecAgent /\ WF_vars(NextAgent)

(***************************************************************************)
(* Claims on the supervisor (checked under SpecSup, SpecSupLive, SpecAll)  *)
(***************************************************************************)
\* a start_server / stop_server call returns in this step
Returned == last'.op # "none"

\* the caller resumes from create_subprocess_exec with a new process
SpawnedBy(c) ==
    /\ calls[c].pc = "spawn"
    /\ calls'[c].pc = "idle"
    /\ Len(procs') = Len(procs) + 1

\* C1: start idempotence for overlapping calls: a start_server call that
\* was suspended in the spawn while another call registered a running
\* process for the name returns without adding a second process for it.
C1_StartIdempotence ==
    [][\A c \in CallIds :
          SpawnedBy(c) => ~AlreadyRunning(servers, calls[c].name)]_vars

\* C6: every stop_server call returns True and leaves the name without an
\* entry; on a name that has no entry it changes nothing in servers.
C6_IdempotentStop ==
    [][(Returned /\ last'.op = "stop") =>
          /\ last'.ret = TRUE
          /\ last'.name \notin DOMAIN servers'
          /\ (last'.name \notin DOMAIN servers => servers' = servers)]_vars

\* C6 witness: the second of two stop_server calls on a server that had been
\* started: it found no entry and returned True.
C6_Witness ==
    /\ last.op = "stop" /\ last.how = "absent" /\ last.ret = TRUE
    /\ \E p \in DOMAIN procs : procs[p].name = last.name
    /\ last.name \notin DOMAIN servers

\* start_server calls on the http/sse path
Probing(c) == calls[c].op = "start" /\ calls[c].pc \in {"probe", "sleep"}

\* C8: a start_server call on an http/sse server no probe of which is
\* answered 200 returns False after exactly MCP_MAX_RETRIES attempts and as
\* many delays; when no other call on the name interferes, the status reads
\* connecting during the attempts and error at the return.
C8_RetryExhaustion ==
    /\ [](\A c \in CallIds : Probing(c) =>
            /\ calls[c].attempt <= MCP_MAX_RETRIES
            /\ calls[c].delays = calls[c].attempt - (IF calls[c].pc = "sleep" THEN 1 ELSE 0)
            /\ calls[c].peers = {} =>
                  /\ calls[c].name \in DOMAIN servers
                  /\ servers[calls[c].name].status = "connecting")
    /\ []((last.op = "start" /\ last.how \in {"connected", "exhausted"} /\ ~last.ok200) =>
            /\ last.how = "exhausted"
            /\ last.ret = FALSE
            /\ last.attempts = MCP_MAX_RETRIES
            /\ last.delays = MCP_MAX_RETRIES)
    /\ [][(Returned /\ last'.how = "exhausted" /\ last'.alone) =>
            /\ last'.name \in DOMAIN servers'
            /\ servers'[last'.name].status = "error"]_vars

\* C8 witness: an undisturbed start_server returned after exhausting its
\* retries without ever being answered 200.
C8_Witness ==
    /\ last.op = "start" /\ last.how = "exhausted" /\ ~last.ok200 /\ last.alone
    /\ last.name \in DOMAIN servers
    /\ servers[last.name].status = "error"


\* the processes start_server spawned for n that have not exited
OwnedLive(n) == {p \in DOMAIN procs : procs[p].name = n /\ Alive(p)}

\* C11: in every reachable state, a server whose status is stopped, or
\* which has no entry in servers, has no live process that the supervisor
\* spawned for it.
C11_StoppedMeansNoProcess ==
    \A n \in ServerNames :
        (n \notin DOMAIN servers \/ servers[n].status = "stopped")
            => OwnedLive(n) = {}

\* the return statements start_server leaves through on a connection failure
FailureExits == {"unknown", "nourl", "spawnfail", "exhausted"}

\* C13: a connection failure during start (spawn failure, unreachable
\* endpoint, missing URL, unknown name) is reported to the caller of
\* start_server as the return value False: a call that left through a
\* failure exit returned False, and a call whose spawn failed did.
C13_StartFailureIsFalse ==
    /\ (last.op = "start" /\ last.how \in FailureExits) => last.ret = FALSE
    /\ \A t \in DOMAIN threads :
          threads[t].pc = "failed" => threads[t].returned = FALSE

\* start_server(n) is called in this step: it suspends at its first await
\* or returns before reaching one
StartInvoked(n) ==
    \/ \E c \in CallIds :
          /\ ~Active(c)
          /\ calls'[c].op = "start" /\ calls'[c].pc # "idle" /\ calls'[c].name = n
    \/ /\ Returned
       /\ last'.op = "start" /\ last'.name = n
       /\ last'.how \in {"unknown", "running", "nourl", "fallback"}

\* the statuses of an entry that is starting or connected
StartedStatuses == {"starting", "connecting", "connected"}

\* C14: start_server(name) called while the entry's status is
\* starting/connecting or connected returns True and is a no-op: the entry
\* is unchanged, no process is spawned, no thread started and no liveness
\* probe sent, for stdio and http/sse servers alike.
C14_StartNoOpWhenStarted ==
    [][\A n \in ServerNames :
          (/\ StartInvoked(n)
           /\ n \in DOMAIN servers
           /\ servers[n].status \in StartedStatuses)
          => /\ Returned
             /\ last'.ret = TRUE
             /\ servers' = servers
             /\ procs' = procs
             /\ threads' = threads
             /\ \A c \in CallIds : Active(c) \/ calls'[c].pc = "idle"]_vars

\* a start_server call on n is invoked or resumes in this step
StartStep(n) ==
    \/ StartInvoked(n)
    \/ \E c \in CallIds :
          /\ Active(c)
          /\ calls[c].op = "start" /\ calls[c].name = n
          /\ calls'[c].pc # calls[c].pc

\* the status of n reads s
StatusIs(d, n, s) == n \in DOMAIN d /\ d[n].status = s

\* C15: a status of error or stopped never changes to connected except in a
\* step of a start_server call, whatever fetch_tools, _wait_and_fetch_tools,
\* the spawning thread or a reader task's catalog message do.
C15_TerminalUntilStart ==
    [][\A n \in ServerNames :
          (/\ StatusIs(servers, n, "error") \/ StatusIs(servers, n, "stopped")
           /\ StatusIs(servers', n, "connected"))
          => StartStep(n)]_vars

\* MCPServerManager.get_server_status: the status a caller reads
get_server_status(d, n) ==
    IF n \notin DOMAIN d
    THEN [status |-> "not_running", tool_count |-> 0]
    ELSE [status |-> d[n].status, tool_count |-> Cardinality(d[n].tools)]

\* C16: when spawning the stdio process fails, start_server returns False
\* and the server's state reads error with its process reference cleared,
\* also on the first start attempt; a process is spawned only by a
\* start_server call (its create_subprocess_exec or its thread).
C16_SpawnFailureIsError ==
    /\ [][(Returned /\ last'.how = "spawnfail")
            => /\ last'.ret = FALSE
               /\ get_server_status(servers', last'.name).status = "error"
               /\ servers'[last'.name].process = None]_vars
    /\ [][Len(procs') > Len(procs)
            => \/ \E c \in CallIds : SpawnedBy(c)
               \/ \E t \in DOMAIN threads :
                     threads[t].pc = "popen" /\ threads'[t].pc # "popen"]_vars

\* C17: every stop_server call terminates (no caller stays suspended in
\* stop_server forever), and on every path (process already exited, exits
\* on terminate, exits on kill, survives both bounded waits, terminate or
\* kill raising, no process) it returns True with the name removed from
\* servers.
C17_StopTerminates ==
    /\ \A c \in CallIds : []<>~(Active(c) /\ calls[c].op = "stop")
    /\ [][(Returned /\ last'.op = "stop")
            => /\ last'.ret = TRUE
               /\ last'.name \notin DOMAIN servers']_vars

\* C17 witness: a stop_server call returned True after both bounded waits
\* timed out, with the process still running and the name removed.
C17_Witness ==
    /\ last.op = "stop" /\ last.how = "resisted" /\ last.ret = TRUE
    /\ OwnedLive(last.name) # {}
    /\ last.name \notin DOMAIN servers

\* the stop_server call c leaves its grace wait by sending the forced kill
KillSentBy(c) == calls[c].pc = "term_wait" /\ calls'[c].pc = "kill_wait"

\* C18: in stop_server the forced kill is sent only by a call that had sent
\* the graceful terminate, whose grace wait expired and whose process was
\* still alive; no signal reaches a process that has exited; and a call
\* that sent the kill is in the second bounded wait.
C18_TwoStageTermination ==
    /\ [][\A p \in DOMAIN procs :
            /\ procs[p].state = "exited" => procs'[p].state = "exited"
            /\ (procs'[p].state = "killing" /\ procs[p].state # "killing")
                  => \E c \in CallIds : KillSentBy(c) /\ calls[c].process = p]_vars
    /\ [][\A c \in CallIds :
            /\ (calls'[c].pc = "kill_wait" /\ calls[c].pc # "kill_wait")
                  => /\ calls[c].pc = "term_wait"
                     /\ Alive(calls[c].process)
                     /\ procs'[calls[c].process].state = "killing"
            /\ (calls'[c].pc = "term_wait" /\ calls[c].pc # "term_wait")
                  => /\ ~Active(c)
                     /\ Alive(calls'[c].process)
                     /\ procs'[calls'[c].process].state = "terminating"]_vars

\* C18 witness: a stop_server call is in its second bounded wait, the kill
\* sent, the process not yet gone.
C18_Witness ==
    \E c \in CallIds :
        /\ calls[c].op = "stop" /\ calls[c].pc = "kill_wait"
        /\ procs[calls[c].process].state = "killing"

\* the step belongs to a start_server or stop_server call: the call begins,
\* moves to its next await or returns, or the thread and task that
\* start_server defines and starts take a step
InCall == calls' # calls \/ Returned \/ threads' # threads

\* C22: the servers map (its keys and the status, process and tools of an
\* entry) changes only in steps of a start_server or stop_server call;
\* reader tasks and everything else leave it as it is.
C22_SingleWriter == [][servers' # servers => InCall]_vars

\* C23: when stop_all_servers returns, stop_server has been called and has
\* returned for every server that had an entry when it was called, each
\* return leaving that name without an entry; if no start_server call ran
\* while it did, servers is empty at its return.
C23_StopAllStopsAll ==
    [][/\ (sa.pc = "loop" /\ sa'.pc = "done") =>
            /\ sa.todo = {}
            /\ sa.quiet => servers' = <<>>
       /\ (sa.pc = "loop" /\ Returned /\ last'.op = "stop") =>
            /\ last'.ret = TRUE
            /\ last'.name \in sa.keys \ sa'.todo
            /\ last'.name \notin DOMAIN servers'
       /\ sa.pc = "loop" => sa'.keys = sa.keys /\ sa'.todo \subseteq sa.todo]_vars

\* stop_all_servers returned after stopping the stdio server, whose process
\* resisted both signals, and the HTTP server, and servers is empty
C23_Witness ==
    /\ sa.pc = "done"
    /\ last.op = "stop_all"
    /\ sa.keys = {"gmail", "web"}
    /\ sa.quiet
    /\ servers = <<>>
    /\ procs[1].state = "killing"

\* stop_all_servers returned while a start_server call that overlapped it
\* has registered the HTTP server again
C23_WitnessOverlap ==
    /\ sa.pc = "done"
    /\ last.op = "stop_all"
    /\ sa.keys = {"gmail", "web"}
    /\ "web" \in DOMAIN servers

\* a reader task takes a step that changes servers
ReaderWrites == servers' # servers /\ ~InCall

\* C34: end-of-stream or a catalog message seen by a reader task changes
\* only the entry that references that reader's process: the entry of the
\* reader's server name holds the process the reader reads from, so a
\* reader of an earlier process never changes the status or tools of the
\* entry a later start_server created.
C34_ReaderOwnsEntry ==
    [][ReaderWrites =>
          \E p \in DOMAIN rd :
              /\ rd[p] = "reading"
              /\ rd' # rd => rd'[p] = "done"
              /\ procs[p].name \in DOMAIN servers
              /\ servers[procs[p].name].process = p
              /\ servers' = [servers EXCEPT ![procs[p].name] =
                                servers'[procs[p].name]]]_vars

\* C35: start_server never replaces an entry whose process has not exited:
\* in the step that overwrites the entry of a name with one for a new
\* process, the process the entry referenced until then, if any, has
\* exited.
C35_NoLiveProcessReplaced ==
    [][\A n \in DOMAIN servers \cap DOMAIN servers' :
          (/\ servers[n].process # None
           /\ servers'[n].process # None
           /\ servers'[n].process # servers[n].process)
          => ~Alive(servers[n].process)]_vars

\* the start_server call c, suspended in its probe or its retry delay,
\* takes its next step
ProbeStep(c) ==
    /\ calls[c].op = "start"
    /\ calls[c].pc \in {"probe", "sleep"}
    /\ calls'[c].pc # calls[c].pc

\* C36: a start_server call for an http/sse server that resumes from its
\* probe or its retry delay after stop_server has removed the entry does not
\* bring the entry back, whatever the probe answers, and when it returns it
\* returns False through a return statement.
C36_StopNotUndone ==
    [][\A c \in CallIds :
          (ProbeStep(c) /\ calls[c].name \notin DOMAIN servers) =>
              /\ calls[c].name \notin DOMAIN servers'
              /\ calls'[c].pc = "idle" =>
                    /\ last'.op = "start"
                    /\ last'.name = calls[c].name
                    /\ last'.ret = FALSE
                    /\ last'.how = "exhausted"]_vars

\* start_server("web") returns False after a stop_server call that ran
\* while it was suspended: a probe was answered 200 when the entry was
\* gone, and the name has no entry
C36_Witness ==
    /\ last.op = "start"
    /\ last.name = "web"
    /\ last.how = "exhausted"
    /\ last.ret = FALSE
    /\ last.ok200
    /\ ~last.alone
    /\ "web" \notin DOMAIN servers

(***************************************************************************)
(* Claims on the client manager (checked under SpecCli, SpecCloseAll)      *)
(***************************************************************************)
OpenSessions(n) ==
    {s \in DOMAIN sess : sess[s].name = n /\ sess[s].state = "open"}

\* a client stored under n is replaced by another one
Replaced(n) ==
    /\ n \in OdKeys(clients)
    /\ n \in OdKeys(clients')
    /\ ClientOf(clients', n) # ClientOf(clients, n)

\* C2: in every reachable state at most one session per server name is
\* active, under every interleaving of connect_to_server, get_tools and
\* execute_tool (and close), and a client stored in clients is never
\* replaced by another one unless its session has been closed.
C2_SingleSession ==
    /\ [](\A n \in ServerNames : Cardinality(OpenSessions(n)) <= 1)
    /\ [][\A n \in ServerNames :
            Replaced(n) => sess'[ClientOf(clients, n)].state = "closed"]_vars

\* the names whose registered client exposes a tool named t
Exposers(t) ==
    {n \in OdKeys(clients) :
        \E d \in sess[ClientOf(clients, n)].tools : d.name = t}

\* of those, the one whose key was inserted into clients first
FirstRegistered(t) ==
    CHOOSE n \in Exposers(t) : \A m \in Exposers(t) : regAt[n] <= regAt[m]

\* C10: every find_tool(t) call returns the server registered first among
\* the registered servers exposing a tool named t, with that server's own
\* descriptor of the tool (never another server's), whatever calls and tool
\* executions came before; with no exposer it returns (None, None).
C10_FirstRegisteredWins ==
    resolved # NothingResolved =>
        LET t == resolved.asked IN
        IF Exposers(t) = {} THEN resolved.found = NotFound
        ELSE /\ resolved.found.server = FirstRegistered(t)
             /\ resolved.found.tool = Descriptor(FirstRegistered(t), t)
             /\ resolved.found.tool \in
                   sess[ClientOf(clients, FirstRegistered(t))].tools

\* find_tool("search") has answered web with web's descriptor while gmail,
\* registered later, exposes "search" too, after a session was closed
C10_Witness ==
    /\ resolved.asked = "search"
    /\ resolved.found = [server |-> "web", tool |-> Descriptor("web", "search")]
    /\ {"gmail", "web"} \subseteq Exposers("search")
    /\ regAt["web"] < regAt["gmail"]
    /\ \E x \in DOMAIN sess : sess[x].state = "closed"

\* the pairs execute_tool may return
ExecutePairs ==
    {"(True, text)", "(False, error)", "(False, cannot connect)",
     "(False, not connected)"}

\* caller c's execute_tool call returns in this step
ExecuteReturns(c) == ccalls[c].op = "execute" /\ CActive(c) /\ ccalls'[c].pc = "idle"

\* C12: every tool invocation returns a pair (success, text) and never
\* raises to its caller, at the client manager and through
\* MCPServerManager.execute_tool: (False, text) when the auto-connect fails
\* or the call fails, (True, text) only when the call ran on an open session.
C12_ToolInvocationReturnsPair ==
    /\ [](cout.op = "execute" =>
            /\ cout.ret \in ExecutePairs
            /\ cout.outer \in ExecutePairs)
    /\ [][\A c \in CallIds : ExecuteReturns(c) =>
            /\ cout'.op = "execute"
            /\ ccalls[c].pc = "connect" => cout'.ret = "(False, cannot connect)"
            /\ cout'.ret = "(True, text)" =>
                  /\ ccalls[c].pc = "call"
                  /\ sess[ccalls[c].sid].state = "open"
            /\ (ccalls[c].pc = "call" /\ sess[ccalls[c].sid].state # "open")
                  => cout'.ret = "(False, error)"]_vars

\* C12 witness: an execute_tool call on a session that was closed under it
\* returned (False, text).
C12_Witness ==
    /\ cout.op = "execute"
    /\ cout.ret = "(False, error)"
    /\ \E s \in DOMAIN sess : sess[s].state = "closed"

\* C33: get_all_tools returns a mapping with exactly one key per session
\* registered in clients, each mapped to the catalog that session holds
\* now, the empty list for a session whose list_tools failed; it returns a
\* dict and does not raise, also while connect_to_server and close calls of
\* other tasks are suspended.
C33_GetAllTools ==
    cout.op = "get_all_tools" =>
        /\ cout.ret = "dict"
        /\ DOMAIN cout.tools = OdKeys(clients)
        /\ \A n \in OdKeys(clients) :
              /\ sess[ClientOf(clients, n)].state = "open"
              /\ cout.tools[n] = sess[ClientOf(clients, n)].tools
              /\ cout.tools[n] \in {ListTools(n), {}}

\* get_all_tools returns while one session is being closed and a
\* connection is being set up: the mapping holds gmail with its catalog and
\* web, whose list_tools failed, with the empty list
C33_Witness ==
    /\ cout.op = "get_all_tools"
    /\ DOMAIN cout.tools = {"gmail", "web"}
    /\ cout.tools["gmail"] = ListTools("gmail")
    /\ cout.tools["web"] = {}
    /\ \E c \in CallIds : ccalls[c].pc = "closing"
    /\ \E c \in CallIds : ccalls[c].pc = "connect"

\* C40: every session whose key close_all or close(name) removes from
\* clients has had its close() called, and neither operation raises, also
\* when connect_to_server registers a session while close_all is suspended
\* in a client's close() and when two close(name) calls overlap.
C40_ClosedBeforeRemoved ==
    /\ [](cout.op = "close" => cout.ret = "None")
    /\ [](ca.ret \in {"none", "None"})
    /\ [][\A i \in DOMAIN clients :
             clients[i].name \notin OdKeys(clients') =>
                 sess'[clients[i].sid].state = "closed"]_vars

(***************************************************************************)
(* Claims on the reader's correlation of results (checked under SpecCorr)  *)
(***************************************************************************)
Handled == nlines' = nlines + 1

\* C3: whatever requests are pending and whatever lines arrive, every
\* pending request's callback is invoked at most once, and only by a result
\* message carrying its id; a line that is not a result for a pending id
\* (unknown id, already resolved id, any other line) invokes no callback and
\* leaves the table as it is, and a matching result removes only its entry.
C3_ExactlyOnceCorrelation ==
    /\ [](\A i \in RequestIds :
            /\ Len(fired[i]) <= 1
            /\ \A k \in DOMAIN fired[i] : fired[i][k] = i
            /\ Len(fired[i]) = 1 => i \in DOMAIN registered \ DOMAIN pending)
    /\ [][Handled =>
            IF line'.kind = "result" /\ line'.id \in DOMAIN pending
            THEN /\ pending' = [x \in DOMAIN pending \ {line'.id} |-> pending[x]]
                 /\ \A i \in RequestIds \ {line'.id} : fired'[i] = fired[i]
            ELSE pending' = pending /\ fired' = fired]_vars

\* a result for r1 arrived again after r1 was resolved by the first one, and
\* was dropped while r2 stayed pending
C3_Witness ==
    /\ line.kind = "result"
    /\ line.id = "r1"
    /\ ~line.hit
    /\ fired["r1"] = <<"r1">>
    /\ "r2" \in DOMAIN pending
    /\ fired["r2"] = <<>>

\* the requests registered on the session whose callback was never invoked
Unresolved == {i \in DOMAIN registered : fired[i] = <<>>}

CallbackEnds(p) == rpc[p] = "in_callback" /\ rpc'[p] = "read"

\* the line handled in this step had the effect the loop body gives a line
\* of its kind: a result for a pending id invokes that callback, a tool list
\* replaces the catalogue of the server if it is still registered
Processed ==
    /\ line'.hit = (line'.kind = "result" /\ line'.id \in DOMAIN pending)
    /\ line'.hit => fired'[pending[line'.id].owner] =
                       Append(fired[pending[line'.id].owner], line'.id)
    /\ line'.kind = "tools" =>
          servers' = CatalogMessage(servers, procs[line'.reader].name, {"search"})

\* C20: whatever lines arrive, a line that is not JSON, a blank line, a
\* message of unknown shape or a callback that raises does not end the
\* reader loop and leaves the registry, and so the server's status, as it
\* was; the line the same reader handles next is processed as a line of its
\* kind is, and only once the handling of the line before it is over.
C20_ReaderSurvivesBadLines ==
    [][/\ Handled =>
            /\ rd'[line'.reader] = "reading"
            /\ rpc[line'.reader] = "read"
            /\ Disturbed(line') => servers' = servers
            /\ line'.after => Processed
       /\ \A p \in Readers : CallbackEnds(p) =>
            /\ rd'[p] = rd[p]
            /\ servers' = servers
            /\ pending' = pending /\ fired' = fired]_vars

\* right after a line it skipped or a callback that raised, the same
\* reader, still reading, resolved a pending request from the result line
\* that followed
C20_Witness ==
    /\ line.after
    /\ line.hit
    /\ rd[line.reader] = "reading"
    /\ fired[line.id] = <<line.id>>

\* C21: when the standard output of a process reaches end-of-stream, its
\* reader task ends in that step and the entry of its server name, if there
\* still is one, reads stopped; a reader that has ended stays ended and
\* handles no further line.
C21_EndOfStreamStopsReader ==
    [][\A p \in Readers :
          /\ rd[p] = "reading" /\ rd'[p] = "done" =>
                /\ DOMAIN servers' = DOMAIN servers
                /\ procs[p].name \in DOMAIN servers =>
                      servers'[procs[p].name].status = "stopped"
          /\ rd[p] = "done" =>
                /\ rd'[p] = "done"
                /\ ~(Handled /\ line'.reader = p)]_vars

\* reader 1 ended at end-of-stream of its exited process and its server
\* reads stopped, while reader 2 is still reading
C21_Witness ==
    /\ rd[1] = "done"
    /\ procs[1].state = "exited"
    /\ "gmail" \in DOMAIN servers
    /\ servers["gmail"].status = "stopped"
    /\ rd[2] = "reading"

(***************************************************************************)
(* Claims on the agent runs (SpecAgent, SpecAgentLive, SpecAgentCli)       *)
(***************************************************************************)
LastEvent == events[Len(events)]

\* the model asked for tools at every call made with tool declarations, up
\* to the iteration bound, and nothing raised
AlwaysRequestedTools ==
    /\ mode = "mcp_stream"
    /\ iteration = max_iterations
    /\ ~raised.hit

\* C4: the streaming loop never issues more than max_iterations + 1 = 11
\* model calls and every run ends; when the model requested tools at every
\* call made with tool declarations, the run ends after exactly 11 model
\* calls, the last one made without tool declarations, with a non-empty
\* final answer followed by the stop event.
C4_BoundedTermination ==
    /\ [](modelCalls <= max_iterations + 1 /\ iteration <= max_iterations)
    /\ [](withTools => modelCalls <= max_iterations)
    /\ <>(apc = "done")
    /\ []((AlwaysRequestedTools /\ apc = "done") =>
            /\ modelCalls = max_iterations + 1
            /\ ~withTools
            /\ answer # <<>>
            /\ LastEvent = "stop")

\* the model requested tools ten times and gave no content at the final
\* call: the run ended with the fallback answer after 11 model calls
C4_Witness ==
    /\ AlwaysRequestedTools
    /\ apc = "done"
    /\ modelCalls = 11
    /\ answer = FALLBACK
    /\ out = StopEvent

\* C5: when the error that ended a run contains the caller's API key, the
\* value given back to the caller (the error event of the streaming
\* generators, the response of the non-streaming path) does not contain it.
C5_KeyNeverReturned ==
    (apc = "done" /\ raised.hit /\ Contains(raised.text, apiKey))
        => ~Contains(out.text, apiKey)

Terminal(t) == t \in {"stop", "error"}

\* C7: in a streaming run the events come out in the order they were
\* yielded (the sequence only grows at its end), no event follows a stop or
\* an error event, and a run that is over has yielded exactly one terminal
\* event, as its last event: stop when nothing raised, error otherwise.
C7_OneTerminalEventLast ==
    /\ [](Streaming =>
            /\ \A i \in 1..(Len(events) - 1) : ~Terminal(events[i])
            /\ apc = "done" =>
                 /\ events # <<>>
                 /\ LastEvent = IF raised.hit THEN "error" ELSE "stop"
                 /\ out.type = LastEvent
            /\ apc # "done" => \A i \in DOMAIN events : ~Terminal(events[i]))
    /\ [][/\ Len(events') >= Len(events)
          /\ SubSeq(events', 1, Len(events)) = events]_vars

\* a run of the tool loop failed after progress events: the error event is
\* the last one and no stop event was yielded
C7_Witness ==
    /\ mode = "mcp_stream"
    /\ apc = "done"
    /\ raised.hit
    /\ Len(events) > 3
    /\ LastEvent = "error"
    /\ \A i \in DOMAIN events : events[i] # "stop"

\* no connected session exposes a tool named n
Unexposed(n) ==
    \A i \in DOMAIN clients :
        sess[clients[i].sid].state = "open" =>
            \A d \in sess[clients[i].sid].tools : d.name # n

\* the step that takes up the call at idx appends the tool message saying
\* the tool is unavailable, under the id of the call, raises nothing and
\* goes on to the next call of the turn or issues the next model call
AnsweredUnavailable ==
    LET tc == toolCalls[idx] IN
    /\ messages' = Append(messages,
                          [role |-> "tool", tool_call_id |-> tc.id,
                           name |-> tc.name,
                           content |-> <<"unavailable tool: ", tc.name>>])
    /\ ~raised'.hit
    /\ \/ apc' = "call" /\ idx' = idx + 1 /\ idx < Len(toolCalls)
       \/ /\ idx = Len(toolCalls)
          /\ apc' = IF Streaming /\ iteration + 1 < max_iterations
                    THEN "model" ELSE "final"
          /\ modelCalls' = modelCalls + 1

OneCallNoTools ==
    /\ modelCalls <= 1
    /\ ~withTools
    /\ toolCalls = <<>>
    /\ messages = <<>>
    /\ apc \notin {"call", "exec", "final"}

\* the run ends in this step without an error
Succeeds == apc # "done" /\ apc' = "done" /\ ~raised'.hit

\* a streaming run yielded content events only and now the stop event
StreamedThenStop ==
    /\ out' = StopEvent
    /\ \A i \in 1..(Len(events') - 1) : events'[i] = "content"

\* C24 as stated: when the registry exposes no tools at the start of a
\* request, the run makes exactly one model call, without tool declarations,
\* executes no tool, and gives that call's content back as it is: streamed
\* and followed by the stop event, or returned as the response.
C24_NoToolsSingleCall ==
    /\ [](GetAllTools = {} => OneCallNoTools)
    /\ [][(GetAllTools = {} /\ Succeeds) =>
            /\ modelCalls' = 1
            /\ IF Streaming THEN StreamedThenStop
               ELSE \E c \in Contents : ModelAnswers(c) /\ out'.text = c]_vars

\* C24 amended: the same, the response of the non-streaming path being the
\* fixed fallback text when the call's content is empty.
C24_NoToolsSingleCall_OrFallback ==
    /\ [](GetAllTools = {} => OneCallNoTools)
    /\ [][(GetAllTools = {} /\ Succeeds) =>
            /\ modelCalls' = 1
            /\ IF Streaming THEN StreamedThenStop
               ELSE \E c \in Contents :
                      /\ ModelAnswers(c)
                      /\ out'.text = IF c = <<>> THEN FALLBACK ELSE c]_vars

\* without tools, the one model call of the non-streaming path gave no
\* content and the response is the fallback text
C24_Witness ==
    /\ mode = "query"
    /\ GetAllTools = {}
    /\ apc = "done"
    /\ ~raised.hit
    /\ modelCalls = 1
    /\ out = [type |-> "response", text |-> FALLBACK]

\* a model call is issued in this step, after the first one of the run
NextModelCall == modelCalls >= 1 /\ modelCalls' = modelCalls + 1

\* C25: at every model call after the first, the conversation holds, after
\* the assistant message of the turn just processed, one tool-result
\* message per requested call, carrying the id and the name of that call,
\* in the order the calls were requested, and nothing else before the next
\* assistant message; the assistant message records the calls as the model
\* gave them: id, name and argument payload.
C25_ToolResultsPaired ==
    [][/\ NextModelCall =>
            /\ Len(messages') = Len(toolCalls) + 1
            /\ messages'[1] = [role |-> "assistant", tool_calls |-> toolCalls]
            /\ \A i \in DOMAIN toolCalls :
                  /\ messages'[i + 1].role = "tool"
                  /\ messages'[i + 1].tool_call_id = toolCalls[i].id
                  /\ messages'[i + 1].name = toolCalls[i].name
       /\ (apc = "model" /\ apc' = "call") =>
            /\ toolCalls' \in ToolCallLists
            /\ messages' = <<[role |-> "assistant", tool_calls |-> toolCalls']>>
       /\ apc \in {"call", "exec"} =>
            /\ toolCalls' = toolCalls
            /\ Len(messages') >= Len(messages)
            /\ SubSeq(messages', 1, Len(messages)) = messages]_vars

\* the second model call of a run is issued after a turn of two calls: the
\* conversation holds the assistant message and the results of t1 and t2,
\* in this order
C25_Witness ==
    /\ apc \in {"model", "final"}
    /\ modelCalls = 2
    /\ Len(toolCalls) = 2
    /\ Len(messages) = 3
    /\ messages[1].role = "assistant"
    /\ messages[2].tool_call_id = "t1"
    /\ messages[3].tool_call_id = "t2"

\* C26: the calls of one model turn are taken up one at a time in the order
\* the model listed them: the run is at one call of the turn at any time,
\* a tool execution starts only for the call the run is at, with the
\* results of all calls before it appended, and the run moves to call k+1
\* only in the step that appends the result of call k.
C26_SequentialToolCalls ==
    /\ [](apc \in {"call", "exec"} =>
            /\ idx \in DOMAIN toolCalls
            /\ Len(messages) = idx)
    /\ [][/\ (apc = "model" /\ apc' = "call") => idx' = 1
          /\ apc' = "exec" => apc = "call" /\ idx' = idx
          /\ (apc \in {"call", "exec"} /\ idx' # idx) =>
                /\ idx' = idx + 1
                /\ apc' = "call"
                /\ Len(messages') = idx + 1
                /\ messages'[idx + 1].tool_call_id = toolCalls[idx].id
          /\ (apc \in {"call", "exec"} /\ apc' \notin {"call", "exec", "done"}) =>
                idx = Len(toolCalls)]_vars

\* the second call of a turn is being executed, the result of the first,
\* and only that, having been appended
C26_Witness ==
    /\ apc = "exec"
    /\ idx = 2
    /\ Len(toolCalls) = 2
    /\ Len(messages) = 2
    /\ messages[2].tool_call_id = toolCalls[1].id

\* C27: whatever a single tool call does (a name nobody exposes, a result
\* reported as failed, any argument payload), the step that finishes it
\* raises nothing and yields no error event: it appends a tool-result
\* message under the id of the call and the run goes on to the next call of
\* the turn or to the next model call; a run is ended by an error only in a
\* model call.
C27_ToolFailureNonFatal ==
    [][/\ apc \in {"call", "exec"} =>
            /\ ~raised'.hit
            /\ apc' \in {"call", "exec", "model", "final"}
            /\ out'.type # "error"
            /\ apc' # "exec" =>
                  /\ Len(messages') = Len(messages) + 1
                  /\ messages'[Len(messages')].role = "tool"
                  /\ messages'[Len(messages')].tool_call_id = toolCalls[idx].id
       /\ (raised'.hit /\ ~raised.hit) =>
            apc \in {"model", "final", "create", "stream"}]_vars

\* json.loads raises JSONDecodeError on the payload of the call at idx
Unparsable == toolCalls[idx].arguments.kind = "malformed"

\* C28: when the argument payload of a requested call is not JSON, the call
\* is carried out with an empty argument set (execute_tool gets {}, the
\* built-in echo answers the empty text, an unknown name its notice), the
\* step raises nothing and the run goes on; the assistant message of the
\* conversation keeps the payload as the model gave it.
C28_UnparsableArguments ==
    [][(apc = "call" /\ Unparsable) =>
          /\ ~raised'.hit
          /\ apc' \in {"exec", "call", "model", "final"}
          /\ apc' = "exec" => execArgs' = [kind |-> "object", text |-> <<>>]
          /\ apc' # "exec" =>
                messages'[Len(messages')].content =
                    IF toolCalls[idx].name = "echo" THEN <<>>
                    ELSE <<"unavailable tool: ", toolCalls[idx].name>>
          /\ messages'[1].tool_calls[idx].arguments.kind = "malformed"]_vars

\* search was requested with a payload that is not JSON and is being
\* executed on its session with no arguments, the assistant message still
\* holding the payload
C28_Witness ==
    /\ apc = "exec"
    /\ toolCalls[idx].name = "search"
    /\ Unparsable
    /\ execArgs = [kind |-> "object", text |-> <<>>]
    /\ messages[1].tool_calls[idx].arguments.kind = "malformed"

\* the text of the progress event for a result
Shown(r) ==
    <<"result: ">> \o
        (IF Len(r) > 100 THEN SubSeq(r, 1, 100) \o <<"... (shortened)">> ELSE r)

\* C29: for every tool result, of any length, the tool-result message
\* appended to the conversation holds the whole result; the progress event
\* of the streaming loop shows it whole when it has at most 100 characters
\* and else its first 100 characters followed by the marker.
C29_FullResultStored ==
    [][apc = "exec" =>
          \E o \in ToolOutcomes :
              /\ ToolReturns(o)
              /\ messages'[Len(messages')].content = o.result
              /\ (Streaming /\ AfterCall.notice = <<>>) => out'.text = Shown(o.result)
              /\ ~Streaming => out' = out]_vars

\* a result of 101 characters is stored whole while the progress event
\* shows 100 characters and the marker
C29_Witness ==
    /\ Streaming
    /\ apc \in {"call", "model"}
    /\ Len(messages) >= 2
    /\ Len(messages[Len(messages)].content) = 101
    /\ out.type = "content"
    /\ Len(out.text) = 102
    /\ out.text[102] = "... (shortened)"

\* a model call (or the reading of its stream) fails in this step
ModelCallFails ==
    /\ apc \in {"model", "final", "create", "stream"}
    /\ raised'.hit
    /\ ~raised.hit

\* C30: when a model call of a run fails, the run is over in that step: the
\* failure is given to the caller as the error event, the last event of the
\* stream, or as the response of the non-streaming path, which carries the
\* error's text; no model call and no tool execution follows, and nothing
\* more is yielded or returned.
C30_ModelFailureEndsRun ==
    /\ [](raised.hit => apc = "done")
    /\ [][/\ ModelCallFails =>
                /\ apc' = "done"
                /\ modelCalls' = modelCalls
                /\ messages' = messages
                /\ IF Streaming
                   THEN /\ out'.type = "error"
                        /\ events' = Append(events, "error")
                   ELSE out' = [type |-> "response",
                                text |-> <<"error while processing: ">>
                                            \o raised'.text]
          /\ raised.hit =>
                UNCHANGED <<apc, modelCalls, messages, execArgs, events, out>>]_vars

\* the third model call of a streaming run failed after two tool turns: the
\* run is over with the error event as its last event
C30_Witness ==
    /\ mode = "mcp_stream"
    /\ raised.hit
    /\ apc = "done"
    /\ modelCalls = 3
    /\ Len(messages) >= 2
    /\ out.type = "error"
    /\ events[Len(events)] = "error"

\* C31: no event a streaming run emits, of any kind, contains the caller's
\* API key, also when a tool result or a tool error text contains it.
C31_NoKeyInEvents == Streaming => ~Contains(out.text, apiKey)

Appended ==
    /\ Len(messages') >= Len(messages)
    /\ SubSeq(messages', 1, Len(messages)) = messages

ModelCall == modelCalls' = modelCalls + 1

\* the tool names declared in the catalog the run collected
Declared == {d.name : d \in available_tools}

C38_EchoBuiltIn ==
    [][(apc = "call" /\ toolCalls[idx].name = "echo") =>
          /\ apc' # "exec"
          /\ execArgs' = execArgs
          /\ messages' = Append(messages,
                ToolMessage(toolCalls[idx],
                            ParseArguments(toolCalls[idx].arguments).text))]_vars

\* process_with_openai keeps to two model calls and one tool turn: a tool
\* turn follows the first call only, and the call issued after it is the
\* second, made without tool declarations
TwoCallsOneTurn ==
    /\ [](mode = "query" =>
            /\ modelCalls <= 2
            /\ modelCalls = 2 => ~withTools /\ toolCalls # <<>>
            /\ apc \in {"call", "exec"} => modelCalls = 1)
    /\ [][(mode = "query" /\ ModelCall /\ modelCalls >= 1) =>
            /\ apc \in {"call", "exec"}
            /\ idx = Len(toolCalls)
            /\ Len(messages') = Len(toolCalls) + 1
            /\ apc' = "final"]_vars

\* the second call of process_with_openai returns in this step
SecondCallReturns ==
    mode = "query" /\ apc = "final" /\ apc' = "done" /\ ~raised'.hit

\* C39 as stated: process_with_openai makes at most two model calls and
\* executes the tool calls of at most one model turn; the second call is
\* made without tool declarations and its content is what is returned.
C39_TwoCallsContentReturned ==
    /\ TwoCallsOneTurn
    /\ [][SecondCallReturns =>
            \E c \in Contents : FinalReturns(c) /\ out'.text = c]_vars

\* C39 amended: the same, the response being the fixed fallback text when
\* the content of the second call is empty.
C39_TwoCallsContentOrFallback ==
    /\ TwoCallsOneTurn
    /\ [][SecondCallReturns =>
            \E c \in Contents :
                /\ FinalReturns(c)
                /\ out'.text = IF c = <<>> THEN FALLBACK ELSE c]_vars

\* process_with_openai has returned the content of its second model call,
\* made after a turn of two tool calls
C39_Witness ==
    /\ mode = "query"
    /\ apc = "done"
    /\ ~raised.hit
    /\ modelCalls = 2
    /\ Len(toolCalls) = 2
    /\ Len(messages) = 3
    /\ out.type = "response"
    /\ out.text \in Contents \ {<<>>}
====
